---- MODULE Spec2Model ----
(***************************************************************************)
(* Model of the cacheddownloader package: the coordinator (Fetch,          *)
(* FetchAsDirectory, CloseDirectory, the per-key gate), the Downloader     *)
(* (concurrency barrier, retries, cancellation) and the FileCache index.   *)
(* The FileCache source is not part of the tree; it is modelled from       *)
(* spec.md sections 3, 4.1 and 4.2.                                        *)
(*                                                                         *)
(* Files are named by what identifies them: a cached generation by         *)
(* <<key, gen>>, a temp file of the uncached directory by its content (the *)
(* random suffix of ioutil.TempFile carries no information), so the        *)
(* uncached directory is a bag of contents.  accessTime is kept as the     *)
(* recency order of the indexed keys (the clock is strictly monotonic).    *)
(***************************************************************************)
EXTENDS Integers, Sequences, FiniteSets, Bags, TLC

VARIABLES
    st,          \* per caller: position in Fetch/FetchAsDirectory and its locals
    inProgress,  \* cachedDownloader.inProgress: key -> holder of the gate (0 = nil)
    permits,     \* len(downloader.concurrentDownloadBarrier)
    entries,     \* FileCache index: key -> [size, info, gen]
    lru,         \* indexed keys in ascending accessTime
    files,       \* cache directory: <<key, gen>> -> [content, refcount]
    nextGen,     \* per key: last generation suffix handed out
    uncached,    \* uncached directory: bag of temp file contents
    held,        \* bag of handles returned to callers and not yet closed
    calls,       \* history: number of calls started
    scen         \* history: progress of the LRU scenario of spec.md 8.5

vars == <<st, inProgress, permits, entries, lru, files, nextGen, uncached, held, calls, scen>>

----------------------------------------------------------------------------
(* Bounds and program constants *)

MAX_DOWNLOAD_ATTEMPTS == 3
MaxSizeInBytes == 1024
MaxConcurrentDownloads == 1
MaxCalls == 3
MaxScenCalls == 5

Procs == {1, 2, 3}
Pair == {1, 2}
Keys == {"A", "B"}
DirKeys == {"A"}
SeqKeys == {"", "A", "B"}
SeqDirKeys == {"B"}
ScenKeys == {"A", "B", "C", "D"}
NetKeys == {"", "A"}
GateKeys == {"A"}
\* the URLs the callers ask for
Urls == {"u1", "u2"}

AllKeys == Keys \cup SeqKeys \cup ScenKeys \cup NetKeys \cup GateKeys

BodySize(b) == CASE b = "b256" -> 256 [] b = "b513" -> 513 [] b = "b3072" -> 3072 [] OTHER -> 0

NoInfo == [ETag |-> "", LastModified |-> ""]
WithETag(e) == [ETag |-> e, LastModified |-> ""]
WithLastModified(m) == [ETag |-> "", LastModified |-> m]

isCacheable(c) == c.ETag # "" \/ c.LastModified # ""

Infos == {NoInfo, WithETag("e1")}
Bodies == {"b513"}
SeqInfos == {NoInfo, WithETag("e1"), WithLastModified("m1")}
SeqBodies == {"b513", "b3072"}
ScenInfos == {WithETag("e1")}
NetInfos == {WithETag("e1"), WithETag("h513")}
NetBodies == {"b513", "b3072"}
ScenBodies == {"b256", "b513"}

----------------------------------------------------------------------------
(* Handles *)

NoHandle == [kind |-> "none", key |-> "", gen |-> 0, content |-> ""]
CachedHandle(k, g) == [kind |-> "cached", key |-> k, gen |-> g, content |-> ""]
DirHandle(k, g) == [kind |-> "dir", key |-> k, gen |-> g, content |-> ""]
tempFileRemoveOnClose(c) == [kind |-> "temp", key |-> "", gen |-> 0, content |-> c]

Partial == "partial"
Empty == "empty"
NoResp == [info |-> NoInfo, body |-> ""]
NoDownload == [path |-> "", size |-> 0, cachingInfo |-> NoInfo]

\* DownloadCancelledError.written where no byte was copied
NoBytesReceived == -1

\* what io.Copy may have written when the body is cut
Written == {0, 256}

Idle == [pc |-> "idle", url |-> "", key |-> "", dir |-> FALSE, cancel |-> FALSE,
         obs |-> 0, woken |-> FALSE, cur |-> 0, cinfo |-> NoInfo,
         attempt |-> 0, resp |-> NoResp, dl |-> NoDownload,
         err |-> "", written |-> 0, out |-> NoHandle, size |-> 0, path |-> ""]

One(x) == SetToBag({x})

----------------------------------------------------------------------------
(* FileCache, modelled from spec.md 4.2 *)

RECURSIVE SumSizes(_, _)
SumSizes(e, ks) ==
    IF ks = {} THEN 0
    ELSE LET k == CHOOSE x \in ks : TRUE IN e[k].size + SumSizes(e, ks \ {k})

UsedSpace(e) == SumSizes(e, DOMAIN e)

Pinned(e, f, k) == f[<<k, e[k].gen>>].refcount > 0

Without(l, ks) == SelectSeq(l, LAMBDA x : x \notin ks)

\* Get leaving accessTime as it is
KeepOrder(l, k) == l

\* accessTime := now
Touch(l, k) == Append(Without(l, {k}), k)

\* victims taken from the most recently accessed end
RECURSIVE VictimsNewestFirst(_, _, _, _, _)
VictimsNewestFirst(e, f, l, used, size) ==
    IF used + size <= MaxSizeInBytes \/ l = <<>> THEN {}
    ELSE LET k == l[Len(l)]
             rest == SubSeq(l, 1, Len(l) - 1)
         IN IF Pinned(e, f, k) THEN VictimsNewestFirst(e, f, rest, used, size)
            ELSE {k} \cup VictimsNewestFirst(e, f, rest, used - e[k].size, size)

\* victims in ascending accessTime among the unpinned entries, until size fits
RECURSIVE Victims(_, _, _, _, _)
Victims(e, f, l, used, size) ==
    IF used + size <= MaxSizeInBytes \/ l = <<>> THEN {}
    ELSE IF Pinned(e, f, Head(l)) THEN Victims(e, f, Tail(l), used, size)
    ELSE {Head(l)} \cup Victims(e, f, Tail(l), used - e[Head(l)].size, size)

AddVictims(e, f, l, k, size) ==
    Victims(e, f, Without(l, {k}), SumSizes(e, DOMAIN e \ {k}), size)

\* Add without the budget check
AddFitsAlways(e, f, l, k, size) == TRUE

AddFits(e, f, l, k, size) ==
    SumSizes(e, (DOMAIN e \ {k}) \ AddVictims(e, f, l, k, size)) + size <= MaxSizeInBytes

Drop(fn, ds) == [x \in DOMAIN fn \ ds |-> fn[x]]

\* the on-disk generations that go away when keys ks are unlinked from the index
Unlinked(e, f, ks) == {<<k, e[k].gen>> : k \in {x \in ks \cap DOMAIN e : ~Pinned(e, f, x)}}

\* Get: the current generation gains a reference
Pin(f, id) == [f EXCEPT ![id].refcount = @ + 1]

\* Add(k, size, info) admitting content as generation g: the victims and the old
\* entry of k leave the index, the new entry is the most recent, its file starts
\* with the reference of the handle Add returns
EntriesAfterAdd(e, f, l, k, size, info, g) ==
    (k :> [size |-> size, info |-> info, gen |-> g])
    @@ Drop(e, AddVictims(e, f, l, k, size) \cup {k})

LruAfterAdd(e, f, l, k, size) ==
    Append(Without(l, AddVictims(e, f, l, k, size) \cup {k}), k)

FilesAfterAdd(e, f, l, k, size, content, g) ==
    (<<k, g>> :> [content |-> content, refcount |-> 1])
    @@ Drop(f, Unlinked(e, f, AddVictims(e, f, l, k, size) \cup {k}))

\* Remove(k)
EntriesAfterRemove(e, k) == Drop(e, {k})

LruAfterRemove(l, k) == Without(l, {k})

FilesAfterRemove(e, f, k) == Drop(f, Unlinked(e, f, {k}))

\* FileCloser close hook / CloseDirectory on generation <<k, g>>
FilesAfterClose(e, f, k, g) ==
    LET id == <<k, g>>
        current == k \in DOMAIN e /\ e[k].gen = g
    IN IF id \notin DOMAIN f THEN f
       ELSE IF f[id].refcount <= 1 /\ ~current THEN Drop(f, {id})
       ELSE [f EXCEPT ![id].refcount = IF @ > 0 THEN @ - 1 ELSE 0]

----------------------------------------------------------------------------
(* Helpers on the callers' state *)

Active == {p \in Procs : st[p].pc # "idle"}

Gated(s) == s.dir \/ s.key # ""

\* where a call goes when populateCache has returned an error
AfterError(s) == IF Gated(s) THEN "errclose" ELSE "done"

\* the loop going round once more than MAX_DOWNLOAD_ATTEMPTS
RetryOnceMore(s, e) ==
    IF s.attempt < MAX_DOWNLOAD_ATTEMPTS
    THEN [s EXCEPT !.pc = "request", !.attempt = @ + 1, !.resp = NoResp]
    ELSE [s EXCEPT !.pc = AfterError(s), !.err = e, !.resp = NoResp]

\* one attempt of Download's loop has failed with a non-cancellation error
Retry(s, e) ==
    IF s.attempt + 1 < MAX_DOWNLOAD_ATTEMPTS
    THEN [s EXCEPT !.pc = "request", !.attempt = @ + 1, !.resp = NoResp]
    ELSE [s EXCEPT !.pc = AfterError(s), !.err = e, !.resp = NoResp]

\* the permit kept when Download returns an error
PermitsKeptAfterRetry(s) == permits

\* the permit goes back when Download returns
PermitsAfterRetry(s) ==
    IF s.attempt + 1 < MAX_DOWNLOAD_ATTEMPTS THEN permits ELSE permits - 1

\* a cancellation handled like any other error of an attempt
BreakRetrying(s, e) == Retry(s, e)

\* the loop is left at once: cancellation, no byte written so far
Break(s, e) ==
    [s EXCEPT !.pc = AfterError(s), !.err = e, !.written = -1, !.resp = NoResp]

\* the length of the ETag tested before its quotes are trimmed: no ETag of an
\* origin, which quotes them, is taken for a checksum
convertETagUntrimmed(etag) == [ok |-> FALSE, sum |-> ""]

\* convertETagToChecksum: "h256" and "h513" stand for the hex MD5 of those bodies
convertETagToChecksum(etag) ==
    CASE etag = "h256" -> [ok |-> TRUE, sum |-> "b256"]
      [] etag = "h513" -> [ok |-> TRUE, sum |-> "b513"]
      [] OTHER -> [ok |-> FALSE, sum |-> ""]

\* what a transformer produces from a downloaded body: NoopTransform keeps
\* content and size, a caller's own transformer writes and reports what it likes,
\* TarTransform reports the size of the expanded tree
TransformResult(t, body) ==
    CASE t = "noop" -> [content |-> body, size |-> BodySize(body)]
      [] t = "custom" -> [content |-> "hello tmp", size |-> 100]
      [] t = "tar" -> [content |-> body, size |-> BodySize(body) + 1]

----------------------------------------------------------------------------
(* Monitor of the scenario "fetch A, B, C (closing each), revalidate A,    *)
(* fetch D": scen counts the matched events (9 = all of them), 10 = the run *)
(* has left the scenario, -1 = the monitor is off                          *)

ScenKey(n) == CASE n = 0 -> "A" [] n = 2 -> "B" [] n = 4 -> "C" [] OTHER -> "D"

ScenOff == IF scen = -1 THEN -1 ELSE 10

\* a call for key k begins: the scenario goes on if it is the call it expects next
ScenAfterCall(k) ==
    IF /\ Active = {}
       /\ \/ scen \in {0, 2, 4} /\ k = ScenKey(scen)
          \/ scen = 6 /\ k = "A"
          \/ scen \in {7, 8} /\ k = "D"
    THEN scen ELSE ScenOff

ScenAfterReturn(s) ==
    LET added(k, n) == ~s.dir /\ s.key = k /\ s.path = "added" /\ s.err = ""
                       /\ s.dl.size = n /\ s.size = n
    IN CASE scen \in {0, 2, 4} /\ added(ScenKey(scen), 256) -> scen + 1
         [] scen = 6 /\ ~s.dir /\ s.key = "A" /\ s.path = "warm" /\ s.err = "" -> 7
         [] scen \in {7, 8} /\ added("D", 513) -> 9
         [] OTHER -> ScenOff

ScenAfterClose(h) ==
    CASE scen \in {1, 3, 5} /\ Active = {} /\ h.kind = "cached"
                            /\ h.key = ScenKey(scen - 1) -> scen + 1
      [] scen = 7 /\ Active = {} /\ h.kind = "cached" /\ h.key = "A" -> 8
      [] OTHER -> ScenOff

----------------------------------------------------------------------------
(* Initial state: New() has wiped the cache directory *)

New ==
    /\ st = [p \in Procs |-> Idle]
    /\ inProgress = [k \in AllKeys |-> 0]
    /\ permits = 0
    /\ entries = <<>>
    /\ lru = <<>>
    /\ files = <<>>
    /\ nextGen = [k \in AllKeys |-> 0]
    /\ uncached = EmptyBag
    /\ held = EmptyBag
    /\ calls = 0

Init == New /\ scen = -1

\* what may be at cachedPath before New is called: nothing at all, written as
\* one name no generation has; an empty directory; a directory with a file
\* from an earlier run
NoDirectory == (<<"", -1>> :> [content |-> "", refcount |-> 0])

Leftovers == (<<"last_nights_dinner", 0>> :> [content |-> "leftovers", refcount |-> 0])

DiskBefore == {NoDirectory, <<>>, Leftovers}

\* before New: no coordinator yet, which calls = -1 stands for
InitDisk ==
    /\ st = [p \in Procs |-> Idle]
    /\ inProgress = [k \in AllKeys |-> 0]
    /\ permits = 0
    /\ entries = <<>>
    /\ lru = <<>>
    /\ files \in DiskBefore
    /\ nextGen = [k \in AllKeys |-> 0]
    /\ uncached = EmptyBag
    /\ held = EmptyBag
    /\ calls = -1
    /\ scen = -1

\* New with MkdirAll alone: what is at cachedPath stays
NewKeepingFiles ==
    /\ calls = -1
    /\ files' = IF files = NoDirectory THEN <<>> ELSE files
    /\ entries' = <<>>
    /\ lru' = <<>>
    /\ inProgress' = [k \in AllKeys |-> 0]
    /\ permits' = 0
    /\ calls' = 0
    /\ UNCHANGED <<st, nextGen, uncached, held, scen>>

\* New as a step: os.RemoveAll(cachedPath), os.MkdirAll(cachedPath), a new
\* downloader, a new cache and an empty gate map
NewCachedDownloader ==
    /\ calls = -1
    /\ files' = <<>>
    /\ entries' = <<>>
    /\ lru' = <<>>
    /\ inProgress' = [k \in AllKeys |-> 0]
    /\ permits' = 0
    /\ calls' = 0
    /\ UNCHANGED <<st, nextGen, uncached, held, scen>>

----------------------------------------------------------------------------
(* Coordinator: entry points and the per-key gate *)

\* the open delete-on-close handles
TempsHeld ==
    BagCardinality([h \in {x \in BagToSet(held) : x.kind = "temp"} |-> held[h]])

\* the temp files nobody will remove: those of no call in progress and of no handle
Leaked ==
    BagCardinality(uncached)
    - Cardinality({p \in Procs : st[p].pc \in {"copy", "transform", "closecur", "install"}
                                 \/ st[p].out.kind = "temp"})
    - TempsHeld

\* the callers start a bounded number of calls
CanCall(p, quota) ==
    /\ st[p].pc = "idle"
    /\ calls < quota

\* the fingerprint taken of the URL and the cache key together: the requests
\* for the second URL get a gate and an entry of their own
FingerprintWithUrl(u, k) == IF u = "u1" THEN k ELSE "B"

\* the hex MD5 of the cache key, which gate map and index are keyed by; MD5 is
\* taken as free of collisions, and a fingerprint is written as its key
Fingerprint(u, k) == k

\* Fetch without the uncached short cut: every key goes through the gate
FetchAlwaysGated(p, u, k) ==
    /\ CanCall(p, IF scen = -1 THEN MaxCalls ELSE MaxScenCalls)
    /\ st' = [st EXCEPT ![p] = [Idle EXCEPT !.url = u, !.key = Fingerprint(u, k),
                                 !.pc = "acquire"]]
    /\ scen' = ScenAfterCall(k)
    /\ calls' = calls + 1
    /\ UNCHANGED <<inProgress, permits, entries, lru, files, nextGen, uncached, held>>

\* Fetch(url, cacheKey, cancelChan)
Fetch(p, u, k) ==
    /\ CanCall(p, IF scen = -1 THEN MaxCalls ELSE MaxScenCalls)
    /\ st' = [st EXCEPT ![p] =
                IF k = ""
                THEN [Idle EXCEPT !.url = u, !.pc = "barrier"]
                ELSE [Idle EXCEPT !.url = u, !.key = Fingerprint(u, k), !.pc = "acquire"]]
    /\ scen' = ScenAfterCall(k)
    /\ calls' = calls + 1
    /\ UNCHANGED <<inProgress, permits, entries, lru, files, nextGen, uncached, held>>

\* FetchAsDirectory going to the index without acquireLimiter
FetchAsDirectoryUngated(p, u, k) ==
    /\ CanCall(p, MaxCalls)
    /\ st' = [st EXCEPT ![p] = [Idle EXCEPT !.url = u, !.key = Fingerprint(u, k),
                                 !.dir = TRUE, !.pc = "get"]]
    /\ scen' = ScenOff
    /\ calls' = calls + 1
    /\ UNCHANGED <<inProgress, permits, entries, lru, files, nextGen, uncached, held>>

\* FetchAsDirectory(url, cacheKey, cancelChan)
FetchAsDirectory(p, u, k) ==
    /\ CanCall(p, MaxCalls)
    /\ st' = [st EXCEPT ![p] = [Idle EXCEPT !.url = u, !.key = Fingerprint(u, k),
                                 !.dir = TRUE, !.pc = "acquire"]]
    /\ scen' = ScenOff
    /\ calls' = calls + 1
    /\ UNCHANGED <<inProgress, permits, entries, lru, files, nextGen, uncached, held>>

\* the cancel channel of the call is closed by its caller
Cancel(p) ==
    /\ st[p].pc \in {"wait", "barrier", "request", "copy", "transform"}
    /\ ~st[p].cancel
    /\ st' = [st EXCEPT ![p].cancel = TRUE]
    /\ UNCHANGED <<inProgress, permits, entries, lru, files, nextGen, calls, uncached, held, scen>>

\* acquireLimiter without the look-up: the gate is installed whoever holds it
acquireLimiterUnchecked(p) ==
    /\ st[p].pc = "acquire"
    /\ inProgress' = [inProgress EXCEPT ![st[p].key] = p]
    /\ st' = [st EXCEPT ![p].pc = "get"]
    /\ UNCHANGED <<permits, entries, lru, files, nextGen, calls, uncached, held, scen>>

\* one pass of acquireLimiter's loop under c.lock
acquireLimiter(p) ==
    LET s == st[p] IN
    /\ s.pc = "acquire"
    /\ IF inProgress[s.key] = 0
       THEN /\ inProgress' = [inProgress EXCEPT ![s.key] = p]
            /\ st' = [st EXCEPT ![p].pc = "get"]
       ELSE /\ st' = [st EXCEPT ![p].pc = "wait", ![p].obs = inProgress[s.key], ![p].woken = FALSE]
            /\ UNCHANGED inProgress
    /\ UNCHANGED <<permits, entries, lru, files, nextGen, calls, uncached, held, scen>>

\* the woken waiter going on to the index without taking the gate
LimiterWokenProbing(p) ==
    /\ st[p].pc = "wait"
    /\ st[p].woken
    /\ st' = [st EXCEPT ![p].pc = "get", ![p].obs = 0, ![p].woken = FALSE]
    /\ UNCHANGED <<inProgress, permits, entries, lru, files, nextGen, calls, uncached, held, scen>>

\* select: the observed gate has been closed
LimiterWoken(p) ==
    /\ st[p].pc = "wait"
    /\ st[p].woken
    /\ st' = [st EXCEPT ![p].pc = "acquire", ![p].obs = 0, ![p].woken = FALSE]
    /\ UNCHANGED <<inProgress, permits, entries, lru, files, nextGen, calls, uncached, held, scen>>

\* the cancelled waiter taking the gate down with it
LimiterCancelledClosing(p) ==
    /\ st[p].pc = "wait"
    /\ st[p].cancel
    /\ inProgress' = [inProgress EXCEPT ![st[p].key] = 0]
    /\ st' = [st EXCEPT ![p].pc = "done", ![p].obs = 0, ![p].woken = FALSE,
                        ![p].err = "cancelled:acquire-limiter",
                        ![p].written = NoBytesReceived]
    /\ UNCHANGED <<permits, entries, lru, files, nextGen, calls, uncached, held, scen>>

\* select: the cancel channel fired
LimiterCancelled(p) ==
    /\ st[p].pc = "wait"
    /\ st[p].cancel
    /\ st' = [st EXCEPT ![p].pc = "done", ![p].obs = 0, ![p].woken = FALSE,
                        ![p].err = "cancelled:acquire-limiter",
                        ![p].written = NoBytesReceived]
    /\ UNCHANGED <<inProgress, permits, entries, lru, files, nextGen, calls, uncached, held, scen>>

\* releaseLimiter closing the channel without deleting the mapping
releaseLimiterKeepingMapping(p) ==
    LET s == st[p] IN
    /\ s.pc = "release"
    /\ st' = [q \in Procs |->
                IF q = p THEN Idle
                ELSE IF st[q].pc = "wait" /\ st[q].obs = p THEN [st[q] EXCEPT !.woken = TRUE]
                ELSE st[q]]
    /\ held' = IF s.out = NoHandle THEN held ELSE held (+) One(s.out)
    /\ scen' = ScenAfterReturn(s)
    /\ UNCHANGED <<inProgress, permits, entries, lru, files, nextGen, calls, uncached>>

\* releaseLimiter deleting the mapping without closing the channel
releaseLimiterSilent(p) ==
    LET s == st[p] IN
    /\ s.pc = "release"
    /\ inProgress' = [inProgress EXCEPT ![s.key] = 0]
    /\ st' = [st EXCEPT ![p] = Idle]
    /\ held' = IF s.out = NoHandle THEN held ELSE held (+) One(s.out)
    /\ scen' = ScenAfterReturn(s)
    /\ UNCHANGED <<permits, entries, lru, files, nextGen, calls, uncached>>

\* a gated call returns: the deferred releaseLimiter deletes the mapping and closes
\* the channel under c.lock, and the caller now owns the handle
releaseLimiter(p) ==
    LET s == st[p] IN
    /\ s.pc = "release"
    /\ inProgress' = [inProgress EXCEPT ![s.key] = 0]
    /\ st' = [q \in Procs |->
                IF q = p THEN Idle
                ELSE IF st[q].pc = "wait" /\ st[q].obs = p THEN [st[q] EXCEPT !.woken = TRUE]
                ELSE st[q]]
    /\ held' = IF s.out = NoHandle THEN held ELSE held (+) One(s.out)
    /\ scen' = ScenAfterReturn(s)
    /\ UNCHANGED <<permits, entries, lru, files, nextGen, calls, uncached>>

----------------------------------------------------------------------------
(* FileCache operations as the coordinator calls them (spec.md 4.2) *)

\* the probe's validator dropped on its way to populateCache
GetWithoutValidator(p) ==
    LET s == st[p]
        k == s.key
    IN
    /\ s.pc = "get"
    /\ IF k \in DOMAIN entries
       THEN /\ lru' = Touch(lru, k)
            /\ files' = Pin(files, <<k, entries[k].gen>>)
            /\ st' = [st EXCEPT ![p].pc = "barrier", ![p].cur = entries[k].gen]
       ELSE /\ st' = [st EXCEPT ![p].pc = "barrier"]
            /\ UNCHANGED <<lru, files>>
    /\ UNCHANGED <<inProgress, permits, entries, nextGen, calls, uncached, held, scen>>

\* Get / GetDirectory: bump accessTime, pin the current generation
Get(p) ==
    LET s == st[p]
        k == s.key
    IN
    /\ s.pc = "get"
    /\ IF k \in DOMAIN entries
       THEN /\ lru' = Touch(lru, k)
            /\ files' = Pin(files, <<k, entries[k].gen>>)
            /\ st' = [st EXCEPT ![p].pc = "barrier", ![p].cur = entries[k].gen,
                                ![p].cinfo = entries[k].info]
       ELSE /\ st' = [st EXCEPT ![p].pc = "barrier"]
            /\ UNCHANGED <<lru, files>>
    /\ UNCHANGED <<inProgress, permits, entries, nextGen, calls, uncached, held, scen>>

\* a probe whose miss is no error
getErrNil(s) == ""

\* the error Get returned with its result
getErr(s) == IF s.cur = 0 THEN "EntryNotFound" ELSE ""

----------------------------------------------------------------------------
(* Downloader.Download and fetchToFile *)

\* the send on the barrier succeeding whatever the channel holds
BarrierUnbounded(p) ==
    /\ st[p].pc = "barrier"
    /\ permits' = permits + 1
    /\ st' = [st EXCEPT ![p].pc = "request", ![p].attempt = 0]
    /\ UNCHANGED <<inProgress, entries, lru, files, nextGen, calls, uncached, held, scen>>

\* select on the concurrency barrier: a permit is free
Barrier(p) ==
    /\ st[p].pc = "barrier"
    /\ permits < MaxConcurrentDownloads
    /\ permits' = permits + 1
    /\ st' = [st EXCEPT ![p].pc = "request", ![p].attempt = 0]
    /\ UNCHANGED <<inProgress, entries, lru, files, nextGen, calls, uncached, held, scen>>

\* the release of the permit deferred before the select that takes it
BarrierCancelledReleasing(p) ==
    /\ st[p].pc = "barrier"
    /\ st[p].cancel
    /\ permits' = permits - 1
    /\ st' = [st EXCEPT ![p] = Break(@, "cancelled:download-barrier")]
    /\ UNCHANGED <<inProgress, entries, lru, files, nextGen, calls, uncached, held, scen>>

\* the cancellation at the barrier reported under the name of the gate's
BarrierCancelledAsLimiter(p) ==
    /\ st[p].pc = "barrier"
    /\ st[p].cancel
    /\ st' = [st EXCEPT ![p] = Break(@, "cancelled:acquire-limiter")]
    /\ UNCHANGED <<inProgress, permits, entries, lru, files, nextGen, calls, uncached, held, scen>>

\* select on the concurrency barrier: the cancel channel fired
BarrierCancelled(p) ==
    /\ st[p].pc = "barrier"
    /\ st[p].cancel
    /\ st' = [st EXCEPT ![p] = Break(@, "cancelled:download-barrier")]
    /\ UNCHANGED <<inProgress, permits, entries, lru, files, nextGen, calls, uncached, held, scen>>

\* client.Do returned an error: a network failure, or the request was cancelled
RequestError(p) ==
    LET s == st[p] IN
    /\ s.pc = "request"
    /\ IF s.cancel
       THEN /\ st' = [st EXCEPT ![p] = Break(s, "cancelled:fetch-request")]
            /\ permits' = permits - 1
       ELSE /\ st' = [st EXCEPT ![p] = Retry(s, "network")]
            /\ permits' = PermitsAfterRetry(s)
    /\ UNCHANGED <<inProgress, entries, lru, files, nextGen, calls, uncached, held, scen>>

\* the warm path reporting the size of the entry
NotModifiedSized(p) ==
    LET s == st[p] IN
    /\ s.pc = "request"
    /\ permits' = permits - 1
    /\ st' = [st EXCEPT ![p] =
                IF Gated(s)
                THEN [s EXCEPT !.pc = "release", !.path = "warm", !.err = getErr(s),
                               !.size = IF s.key \in DOMAIN entries
                                        THEN entries[s.key].size ELSE 0,
                               !.out = IF s.cur = 0 THEN NoHandle
                                       ELSE IF s.dir THEN DirHandle(s.key, s.cur)
                                       ELSE CachedHandle(s.key, s.cur)]
                ELSE [s EXCEPT !.pc = "done", !.path = "warm", !.err = "open"]]
    /\ UNCHANGED <<inProgress, entries, lru, files, nextGen, calls, uncached, held, scen>>

\* the warm path closing the probe's reader like the other paths do
NotModifiedClosing(p) ==
    LET s == st[p] IN
    /\ s.pc = "request"
    /\ permits' = permits - 1
    /\ files' = IF s.cur = 0 THEN files ELSE FilesAfterClose(entries, files, s.key, s.cur)
    /\ st' = [st EXCEPT ![p] =
                IF Gated(s)
                THEN [s EXCEPT !.pc = "release", !.path = "warm", !.err = getErr(s),
                               !.out = IF s.cur = 0 THEN NoHandle
                                       ELSE IF s.dir THEN DirHandle(s.key, s.cur)
                                       ELSE CachedHandle(s.key, s.cur)]
                ELSE [s EXCEPT !.pc = "done", !.path = "warm", !.err = "open"]]
    /\ UNCHANGED <<inProgress, entries, lru, nextGen, calls, uncached, held, scen>>

\* the destination file created before the status of the response is looked at
NotModifiedLeavingFile(p) ==
    LET s == st[p] IN
    /\ s.pc = "request"
    /\ permits' = permits - 1
    /\ uncached' = uncached (+) One(Empty)
    /\ st' = [st EXCEPT ![p] =
                IF Gated(s)
                THEN [s EXCEPT !.pc = "release", !.path = "warm", !.err = getErr(s),
                               !.out = IF s.cur = 0 THEN NoHandle
                                       ELSE IF s.dir THEN DirHandle(s.key, s.cur)
                                       ELSE CachedHandle(s.key, s.cur)]
                ELSE [s EXCEPT !.pc = "done", !.path = "warm", !.err = "open"]]
    /\ UNCHANGED <<inProgress, entries, lru, files, nextGen, calls, held, scen>>

\* 304 Not Modified: Download returns ("", zero, nil) and populateCache reports a
\* warm cache; the gated callers return what the probe gave them
NotModified(p) ==
    LET s == st[p] IN
    /\ s.pc = "request"
    /\ permits' = permits - 1
    /\ st' = [st EXCEPT ![p] =
                IF Gated(s)
                THEN [s EXCEPT !.pc = "release", !.path = "warm", !.err = getErr(s),
                               !.out = IF s.cur = 0 THEN NoHandle
                                       ELSE IF s.dir THEN DirHandle(s.key, s.cur)
                                       ELSE CachedHandle(s.key, s.cur)]
                ELSE [s EXCEPT !.pc = "done", !.path = "warm", !.err = "open"]]
    /\ UNCHANGED <<inProgress, entries, lru, files, nextGen, calls, uncached, held, scen>>

\* any status other than 200 and 304
BadStatus(p) ==
    LET s == st[p] IN
    /\ s.pc = "request"
    /\ st' = [st EXCEPT ![p] = Retry(s, "DownloadFailed")]
    /\ permits' = PermitsAfterRetry(s)
    /\ UNCHANGED <<inProgress, entries, lru, files, nextGen, calls, uncached, held, scen>>

\* 200 OK: createDestination makes the temp file the body is streamed to; what
\* the response carries is read when the copy is done
Ok(p) ==
    /\ st[p].pc = "request"
    /\ uncached' = uncached (+) One(Partial)
    /\ st' = [st EXCEPT ![p].pc = "copy"]
    /\ UNCHANGED <<inProgress, permits, entries, lru, files, nextGen, calls, held, scen>>

\* the deferred clean-up of the destination file left out
CopyErrorLeavingPartial(p) ==
    LET s == st[p] IN
    /\ s.pc = "copy"
    /\ IF s.cancel
       THEN /\ \E n \in Written :
                    st' = [st EXCEPT ![p] = [Break(s, "cancelled:copy-body")
                                                EXCEPT !.written = n]]
            /\ permits' = permits - 1
       ELSE /\ st' = [st EXCEPT ![p] = Retry(s, "network")]
            /\ permits' = PermitsAfterRetry(s)
    /\ UNCHANGED <<inProgress, entries, lru, files, nextGen, calls, uncached, held, scen>>

\* io.Copy failed: a network failure, or the body was closed on cancellation
CopyError(p) ==
    LET s == st[p] IN
    /\ s.pc = "copy"
    /\ uncached' = uncached (-) One(Partial)
    /\ IF s.cancel
       THEN /\ \E n \in Written :
                    st' = [st EXCEPT ![p] = [Break(s, "cancelled:copy-body")
                                                EXCEPT !.written = n]]
            /\ permits' = permits - 1
       ELSE /\ st' = [st EXCEPT ![p] = Retry(s, "network")]
            /\ permits' = PermitsAfterRetry(s)
    /\ UNCHANGED <<inProgress, entries, lru, files, nextGen, calls, held, scen>>

\* io.Copy succeeded on a response with headers info and body body: verify the
\* checksum when the ETag is one
CopyDone(p, info, body) ==
    LET s == st[p]
        sum == convertETagToChecksum(info.ETag)
    IN
    /\ s.pc = "copy"
    /\ IF sum.ok /\ sum.sum # body
       THEN /\ uncached' = uncached (-) One(Partial)
            /\ st' = [st EXCEPT ![p] = Retry(s, "ChecksumMismatch")]
            /\ permits' = PermitsAfterRetry(s)
       ELSE /\ uncached' = (uncached (-) One(Partial)) (+) One(body)
            /\ st' = [st EXCEPT ![p].pc = "transform",
                                ![p].resp = [info |-> info, body |-> body]]
            /\ permits' = permits - 1
    /\ UNCHANGED <<inProgress, entries, lru, files, nextGen, calls, held, scen>>

----------------------------------------------------------------------------
(* populateCache after Download has returned a file *)

\* the download left next to the file the transformer has written
TransformKeepingDownload(p, t) ==
    LET s == st[p]
        r == TransformResult(t, s.resp.body)
        d == [path |-> r.content, size |-> r.size, cachingInfo |-> s.resp.info]
    IN
    /\ s.pc = "transform"
    /\ s.dir <=> t = "tar"
    /\ uncached' = uncached (+) One(r.content)
    /\ st' = [st EXCEPT ![p] =
                IF Gated(s)
                THEN [s EXCEPT !.pc = IF s.cur = 0 THEN "install" ELSE "closecur",
                               !.dl = d, !.size = BodySize(s.resp.body), !.resp = NoResp]
                ELSE [s EXCEPT !.pc = "done", !.dl = d, !.size = BodySize(s.resp.body),
                               !.resp = NoResp, !.path = "uncached",
                               !.out = tempFileRemoveOnClose(r.content)]]
    /\ UNCHANGED <<inProgress, permits, entries, lru, files, nextGen, calls, held, scen>>

\* populateCache taking the size it returns from the transformer's result
TransformSizingResult(p, t) ==
    LET s == st[p]
        r == TransformResult(t, s.resp.body)
        d == [path |-> r.content, size |-> r.size, cachingInfo |-> s.resp.info]
    IN
    /\ s.pc = "transform"
    /\ s.dir <=> t = "tar"
    /\ uncached' = (uncached (-) One(s.resp.body)) (+) One(r.content)
    /\ st' = [st EXCEPT ![p] =
                IF Gated(s)
                THEN [s EXCEPT !.pc = IF s.cur = 0 THEN "install" ELSE "closecur",
                               !.dl = d, !.size = r.size, !.resp = NoResp]
                ELSE [s EXCEPT !.pc = "done", !.dl = d, !.size = r.size,
                               !.resp = NoResp, !.path = "uncached",
                               !.out = tempFileRemoveOnClose(r.content)]]
    /\ UNCHANGED <<inProgress, permits, entries, lru, files, nextGen, calls, held, scen>>

\* a transformer that is given the cancel channel and gives up when it fires
TransformHonouringCancel(p, t) ==
    LET s == st[p]
        r == TransformResult(t, s.resp.body)
        d == [path |-> r.content, size |-> r.size, cachingInfo |-> s.resp.info]
    IN
    /\ s.pc = "transform"
    /\ s.dir <=> t = "tar"
    /\ IF s.cancel
       THEN /\ uncached' = uncached (-) One(s.resp.body)
            /\ st' = [st EXCEPT ![p] = [s EXCEPT !.pc = AfterError(s),
                                                 !.err = "cancelled:copy-body",
                                                 !.resp = NoResp]]
       ELSE /\ uncached' = (uncached (-) One(s.resp.body)) (+) One(r.content)
            /\ st' = [st EXCEPT ![p] =
                        IF Gated(s)
                        THEN [s EXCEPT !.pc = IF s.cur = 0 THEN "install" ELSE "closecur",
                                       !.dl = d, !.size = BodySize(s.resp.body), !.resp = NoResp]
                        ELSE [s EXCEPT !.pc = "done", !.dl = d, !.size = BodySize(s.resp.body),
                                       !.resp = NoResp, !.path = "uncached",
                                       !.out = tempFileRemoveOnClose(r.content)]]
    /\ UNCHANGED <<inProgress, permits, entries, lru, files, nextGen, calls, held, scen>>

\* the transformer has turned the download into the file populateCache returns
Transform(p, t) ==
    LET s == st[p]
        r == TransformResult(t, s.resp.body)
        d == [path |-> r.content, size |-> r.size, cachingInfo |-> s.resp.info]
    IN
    /\ s.pc = "transform"
    /\ s.dir <=> t = "tar"
    /\ uncached' = (uncached (-) One(s.resp.body)) (+) One(r.content)
    /\ st' = [st EXCEPT ![p] =
                IF Gated(s)
                THEN [s EXCEPT !.pc = IF s.cur = 0 THEN "install" ELSE "closecur",
                               !.dl = d, !.size = BodySize(s.resp.body), !.resp = NoResp]
                ELSE [s EXCEPT !.pc = "done", !.dl = d, !.size = BodySize(s.resp.body),
                               !.resp = NoResp, !.path = "uncached",
                               !.out = tempFileRemoveOnClose(r.content)]]
    /\ UNCHANGED <<inProgress, permits, entries, lru, files, nextGen, calls, held, scen>>

\* the transformer failed: populateCache returns the error and removes nothing
TransformError(p) ==
    LET s == st[p] IN
    /\ s.pc = "transform"
    /\ uncached' = uncached (+) One(Empty)
    /\ st' = [st EXCEPT ![p] = [s EXCEPT !.pc = AfterError(s), !.err = "transform",
                                         !.resp = NoResp]]
    /\ UNCHANGED <<inProgress, permits, entries, lru, files, nextGen, calls, held, scen>>

----------------------------------------------------------------------------
(* fetchCachedFile / fetchCachedDirectory after populateCache *)

\* the error path purging the entry of the key
ErrClosePurging(p) ==
    LET s == st[p] IN
    /\ s.pc = "errclose"
    /\ entries' = EntriesAfterRemove(entries, s.key)
    /\ lru' = LruAfterRemove(lru, s.key)
    /\ files' = IF s.cur = 0 THEN files ELSE FilesAfterClose(entries', files, s.key, s.cur)
    /\ st' = [st EXCEPT ![p].pc = "release", ![p].path = "error"]
    /\ UNCHANGED <<inProgress, permits, nextGen, calls, uncached, held, scen>>

\* the error path returning without the deferred releaseLimiter
ErrCloseReturning(p) ==
    LET s == st[p] IN
    /\ s.pc = "errclose"
    /\ files' = IF s.cur = 0 THEN files ELSE FilesAfterClose(entries, files, s.key, s.cur)
    /\ st' = [st EXCEPT ![p].pc = "done", ![p].path = "error"]
    /\ UNCHANGED <<inProgress, permits, entries, lru, nextGen, calls, uncached, held, scen>>

\* error path: close the reader (or directory) obtained from the probe
ErrClose(p) ==
    LET s == st[p] IN
    /\ s.pc = "errclose"
    /\ files' = IF s.cur = 0 THEN files ELSE FilesAfterClose(entries, files, s.key, s.cur)
    /\ st' = [st EXCEPT ![p].pc = "release", ![p].path = "error"]
    /\ UNCHANGED <<inProgress, permits, entries, lru, nextGen, calls, uncached, held, scen>>

\* the coordinator removing the file of the stale entry itself
CloseCurrentDeleting(p) ==
    LET s == st[p] IN
    /\ s.pc = "closecur"
    /\ files' = Drop(files, {<<s.key, s.cur>>})
    /\ st' = [st EXCEPT ![p].pc = "install"]
    /\ UNCHANGED <<inProgress, permits, entries, lru, nextGen, calls, uncached, held, scen>>

\* the stale reader of the probe left open
CloseCurrentSkipped(p) ==
    /\ st[p].pc = "closecur"
    /\ st' = [st EXCEPT ![p].pc = "install"]
    /\ UNCHANGED <<inProgress, permits, entries, lru, files, nextGen, calls, uncached, held, scen>>

\* fresh bytes: the current entry is not fresh, disregard it
CloseCurrent(p) ==
    LET s == st[p] IN
    /\ s.pc = "closecur"
    /\ files' = FilesAfterClose(entries, files, s.key, s.cur)
    /\ st' = [st EXCEPT ![p].pc = "install"]
    /\ UNCHANGED <<inProgress, permits, entries, lru, nextGen, calls, uncached, held, scen>>

\* the new bytes written over the file of the entry they replace
AddInPlace(p) ==
    LET s == st[p]
        k == s.key
        g == IF k \in DOMAIN entries THEN entries[k].gen ELSE nextGen[k] + 1
    IN
    /\ s.pc = "install"
    /\ isCacheable(s.dl.cachingInfo)
    /\ AddFits(entries, files, lru, k, s.dl.size)
    /\ entries' = EntriesAfterAdd(entries, files, lru, k, s.dl.size, s.dl.cachingInfo, g)
    /\ lru' = LruAfterAdd(entries, files, lru, k, s.dl.size)
    /\ files' = FilesAfterAdd(entries, files, lru, k, s.dl.size, s.dl.path, g)
    /\ nextGen' = [nextGen EXCEPT ![k] = g]
    /\ uncached' = uncached (-) One(s.dl.path)
    /\ st' = [st EXCEPT ![p].pc = "release", ![p].path = "added",
                        ![p].out = IF s.dir THEN DirHandle(k, g) ELSE CachedHandle(k, g)]
    /\ UNCHANGED <<inProgress, permits, held, calls, scen>>

\* cache.Add / cache.AddDirectory admits the transformed file
Add(p) ==
    LET s == st[p]
        k == s.key
        g == nextGen[k] + 1
    IN
    /\ s.pc = "install"
    /\ isCacheable(s.dl.cachingInfo)
    /\ AddFits(entries, files, lru, k, s.dl.size)
    /\ entries' = EntriesAfterAdd(entries, files, lru, k, s.dl.size, s.dl.cachingInfo, g)
    /\ lru' = LruAfterAdd(entries, files, lru, k, s.dl.size)
    /\ files' = FilesAfterAdd(entries, files, lru, k, s.dl.size, s.dl.path, g)
    /\ nextGen' = [nextGen EXCEPT ![k] = g]
    /\ uncached' = uncached (-) One(s.dl.path)
    /\ st' = [st EXCEPT ![p].pc = "release", ![p].path = "added",
                        ![p].out = IF s.dir THEN DirHandle(k, g) ELSE CachedHandle(k, g)]
    /\ UNCHANGED <<inProgress, permits, held, calls, scen>>

\* NotEnoughSpace handed to the caller of Fetch as it is to FetchAsDirectory's
AddNotEnoughSpaceSurfaced(p) ==
    LET s == st[p] IN
    /\ s.pc = "install"
    /\ isCacheable(s.dl.cachingInfo)
    /\ ~AddFits(entries, files, lru, s.key, s.dl.size)
    /\ st' = [st EXCEPT ![p] = [s EXCEPT !.pc = "release", !.path = "nospace",
                                         !.err = "NotEnoughSpace"]]
    /\ UNCHANGED <<inProgress, permits, entries, lru, files, nextGen, calls, uncached, held, scen>>

\* Add answering NotEnoughSpace after it has evicted what it could
AddNotEnoughSpaceEvicting(p) ==
    LET s == st[p]
        vs == AddVictims(entries, files, lru, s.key, s.dl.size)
    IN
    /\ s.pc = "install"
    /\ isCacheable(s.dl.cachingInfo)
    /\ ~AddFits(entries, files, lru, s.key, s.dl.size)
    /\ entries' = Drop(entries, vs)
    /\ lru' = Without(lru, vs)
    /\ files' = Drop(files, Unlinked(entries, files, vs))
    /\ st' = [st EXCEPT ![p] =
                IF s.dir
                THEN [s EXCEPT !.pc = "release", !.path = "nospace", !.err = "NotEnoughSpace"]
                ELSE [s EXCEPT !.pc = "release", !.path = "nospace",
                               !.out = tempFileRemoveOnClose(s.dl.path)]]
    /\ UNCHANGED <<inProgress, permits, nextGen, calls, uncached, held, scen>>

\* NotEnoughSpace degrading for FetchAsDirectory as it does for Fetch: the
\* path of the expanded download returned without an error
AddNotEnoughSpaceDegrading(p) ==
    LET s == st[p] IN
    /\ s.pc = "install"
    /\ isCacheable(s.dl.cachingInfo)
    /\ ~AddFits(entries, files, lru, s.key, s.dl.size)
    /\ st' = [st EXCEPT ![p] =
                IF s.dir
                THEN [s EXCEPT !.pc = "release", !.path = "nospace",
                               !.out = DirHandle(s.key, nextGen[s.key] + 1)]
                ELSE [s EXCEPT !.pc = "release", !.path = "nospace",
                               !.out = tempFileRemoveOnClose(s.dl.path)]]
    /\ UNCHANGED <<inProgress, permits, entries, lru, files, nextGen, calls, uncached, held, scen>>

\* cache.Add / cache.AddDirectory answers NotEnoughSpace
AddNotEnoughSpace(p) ==
    LET s == st[p] IN
    /\ s.pc = "install"
    /\ isCacheable(s.dl.cachingInfo)
    /\ ~AddFits(entries, files, lru, s.key, s.dl.size)
    /\ st' = [st EXCEPT ![p] =
                IF s.dir
                THEN [s EXCEPT !.pc = "release", !.path = "nospace", !.err = "NotEnoughSpace"]
                ELSE [s EXCEPT !.pc = "release", !.path = "nospace",
                               !.out = tempFileRemoveOnClose(s.dl.path)]]
    /\ UNCHANGED <<inProgress, permits, entries, lru, files, nextGen, calls, uncached, held, scen>>

\* the non-cacheable branch without its cache.Remove
RemoveSkipped(p) ==
    LET s == st[p] IN
    /\ s.pc = "install"
    /\ ~isCacheable(s.dl.cachingInfo)
    /\ st' = [st EXCEPT ![p] =
                IF s.dir
                THEN [s EXCEPT !.pc = "release", !.path = "noncacheable", !.err = "NotCacheable"]
                ELSE [s EXCEPT !.pc = "release", !.path = "noncacheable",
                               !.out = tempFileRemoveOnClose(s.dl.path)]]
    /\ UNCHANGED <<inProgress, permits, entries, lru, files, nextGen, calls, uncached, held, scen>>

\* the non-cacheable branch of FetchAsDirectory returning without its error
RemoveWithoutError(p) ==
    LET s == st[p] IN
    /\ s.pc = "install"
    /\ ~isCacheable(s.dl.cachingInfo)
    /\ entries' = EntriesAfterRemove(entries, s.key)
    /\ lru' = LruAfterRemove(lru, s.key)
    /\ files' = FilesAfterRemove(entries, files, s.key)
    /\ st' = [st EXCEPT ![p] =
                IF s.dir
                THEN [s EXCEPT !.pc = "release", !.path = "noncacheable"]
                ELSE [s EXCEPT !.pc = "release", !.path = "noncacheable",
                               !.out = tempFileRemoveOnClose(s.dl.path)]]
    /\ UNCHANGED <<inProgress, permits, nextGen, calls, uncached, held, scen>>

\* the response is not cacheable: cache.Remove
Remove(p) ==
    LET s == st[p] IN
    /\ s.pc = "install"
    /\ ~isCacheable(s.dl.cachingInfo)
    /\ entries' = EntriesAfterRemove(entries, s.key)
    /\ lru' = LruAfterRemove(lru, s.key)
    /\ files' = FilesAfterRemove(entries, files, s.key)
    /\ st' = [st EXCEPT ![p] =
                IF s.dir
                THEN [s EXCEPT !.pc = "release", !.path = "noncacheable", !.err = "NotCacheable"]
                ELSE [s EXCEPT !.pc = "release", !.path = "noncacheable",
                               !.out = tempFileRemoveOnClose(s.dl.path)]]
    /\ UNCHANGED <<inProgress, permits, nextGen, calls, uncached, held, scen>>

\* an ungated call (uncached fetch, or cancelled at the gate) returns to its caller
Return(p) ==
    LET s == st[p] IN
    /\ s.pc = "done"
    /\ held' = IF s.out = NoHandle THEN held ELSE held (+) One(s.out)
    /\ st' = [st EXCEPT ![p] = Idle]
    /\ scen' = ScenAfterReturn(s)
    /\ UNCHANGED <<inProgress, permits, entries, lru, files, nextGen, calls, uncached>>

----------------------------------------------------------------------------
(* The callers release what they were given *)

\* FileCloser.Close: the cached hook or the delete-on-close hook
Close(h) ==
    /\ BagIn(h, held)
    /\ h.kind \in {"cached", "temp"}
    /\ held' = held (-) One(h)
    /\ IF h.kind = "cached"
       THEN /\ files' = FilesAfterClose(entries, files, h.key, h.gen)
            /\ UNCHANGED uncached
       ELSE /\ uncached' = uncached (-) One(h.content)
            /\ UNCHANGED files
    /\ scen' = ScenAfterClose(h)
    /\ UNCHANGED <<st, inProgress, permits, entries, lru, nextGen, calls>>

\* CloseDirectory that does not reach the cache
CloseDirectoryForgetful(h) ==
    /\ BagIn(h, held)
    /\ h.kind = "dir"
    /\ held' = held (-) One(h)
    /\ scen' = ScenAfterClose(h)
    /\ UNCHANGED <<st, inProgress, permits, entries, lru, files, nextGen, calls, uncached>>

\* CloseDirectory(cacheKey, directoryPath) on a directory a caller holds
CloseDirectory(h) ==
    /\ BagIn(h, held)
    /\ h.kind = "dir"
    /\ held' = held (-) One(h)
    /\ files' = FilesAfterClose(entries, files, h.key, h.gen)
    /\ scen' = ScenAfterClose(h)
    /\ UNCHANGED <<st, inProgress, permits, entries, lru, nextGen, calls, uncached>>

----------------------------------------------------------------------------

\* the steps of a call of caller p that meets no failure and whose responses are
\* cacheable; the origin answers with validators from I and bodies from B, and
\* the coordinator was built with a transformer from T
Calm(p, I, B, T) ==
    \/ acquireLimiter(p)
    \/ Get(p)
    \/ Barrier(p)
    \/ NotModified(p)
    \/ Ok(p)
    \/ \E info \in I, body \in B : CopyDone(p, info, body)
    \/ \E t \in T \cup {"tar"} : Transform(p, t)
    \/ CloseCurrent(p)
    \/ Add(p)
    \/ AddNotEnoughSpace(p)
    \/ releaseLimiter(p)

\* the network, the origin or the transformer fails
Failures(p) ==
    \/ RequestError(p)
    \/ BadStatus(p)
    \/ CopyError(p)
    \/ TransformError(p)
    \/ ErrClose(p)

Closes == \E h \in BagToSet(held) : Close(h) \/ CloseDirectory(h)

\* concurrent callers that may cancel
Next ==
    \/ \E p \in Pair :
        \/ \E k \in Keys : Fetch(p, "u1", k)
        \/ \E k \in DirKeys : FetchAsDirectory(p, "u1", k)
        \/ Cancel(p)
        \/ LimiterWoken(p)
        \/ LimiterCancelled(p)
        \/ BarrierCancelled(p)
        \/ Calm(p, Infos, Bodies, {"noop"})
        \/ Failures(p)
        \/ Remove(p)
        \/ Return(p)
    \/ Closes

Spec == Init /\ [][Next]_vars

\* one caller at a time, and an origin with more to say
NextSeq ==
    \/ \E k \in SeqKeys : Fetch(1, "u1", k)
    \/ \E k \in SeqDirKeys : FetchAsDirectory(1, "u1", k)
    \/ Calm(1, SeqInfos, SeqBodies, {"noop", "custom"})
    \/ Failures(1)
    \/ Remove(1)
    \/ Return(1)
    \/ Closes

SpecSeq == Init /\ [][NextSeq]_vars

\* one caller filling the cache from an origin that never fails and always
\* sends an ETag, watched by the scenario monitor
InitLRU == New /\ scen = 0

\* the keys are interchangeable: the caller takes a new one in alphabetical order
KeyRank(k) == CASE k = "A" -> 1 [] k = "B" -> 2 [] k = "C" -> 3 [] OTHER -> 4

InOrder(k) == \A j \in ScenKeys : KeyRank(j) < KeyRank(k) => nextGen[j] > 0

NextLRU ==
    \/ \E k \in ScenKeys : InOrder(k) /\ Fetch(1, "u1", k)
    \/ Calm(1, ScenInfos, ScenBodies, {"noop"})
    \/ Closes

SpecLRU == InitLRU /\ [][NextLRU]_vars

\* two callers, cached and uncached fetches, sharing the download permits; the
\* origin sends an ETag that is the MD5 of one of its bodies
NextNet ==
    \/ \E p \in Pair :
        \/ \E k \in NetKeys : Fetch(p, "u1", k)
        \/ Cancel(p)
        \/ LimiterWoken(p)
        \/ LimiterCancelled(p)
        \/ BarrierCancelled(p)
        \/ Calm(p, NetInfos, NetBodies, {"noop"})
        \/ Failures(p)
        \/ Return(p)
    \/ Closes

SpecNet == Init /\ [][NextNet]_vars

\* three callers on one key whose origin answers 304: the gate alone
NextGate ==
    \E p \in Procs :
        \/ \E k \in GateKeys : Fetch(p, "u1", k)
        \/ Cancel(p)
        \/ acquireLimiter(p)
        \/ LimiterWoken(p)
        \/ LimiterCancelled(p)
        \/ Get(p)
        \/ Barrier(p)
        \/ NotModified(p)
        \/ releaseLimiter(p)
        \/ Return(p)

SpecGate == Init /\ [][NextGate]_vars

\* what the origin sends with the resource at URL u
OriginInfo(u) == WithETag(IF u = "u1" THEN "e1" ELSE "e2")

\* two callers asking for two URLs under one cache key; the origin has a
\* resource of its own at each URL and never fails
NextUrl ==
    \E p \in Pair :
        \/ \E u \in Urls, k \in GateKeys : Fetch(p, u, k)
        \/ acquireLimiter(p)
        \/ LimiterWoken(p)
        \/ Get(p)
        \/ Barrier(p)
        \/ NotModified(p)
        \/ Ok(p)
        \/ \E body \in Bodies : CopyDone(p, OriginInfo(st[p].url), body)
        \/ Transform(p, "noop")
        \/ CloseCurrent(p)
        \/ Add(p)
        \/ releaseLimiter(p)

SpecUrl == Init /\ [][NextUrl]_vars

\* the steps of a call of caller p that nobody cancels, to an origin that
\* answers every request, with 304 only if the request was conditional, and
\* whose content does not change
Proceed(p) ==
    \/ acquireLimiter(p)
    \/ LimiterWoken(p)
    \/ Get(p)
    \/ Barrier(p)
    \/ st[p].cinfo # NoInfo /\ NotModified(p)
    \/ Ok(p)
    \/ \E info \in ScenInfos, body \in Bodies : CopyDone(p, info, body)
    \/ Transform(p, "noop")
    \/ CloseCurrent(p)
    \/ Add(p)
    \/ releaseLimiter(p)

NextLive ==
    \/ \E p \in Pair : (\E k \in GateKeys : Fetch(p, "u1", k)) \/ Proceed(p)
    \/ \E h \in BagToSet(held) : Close(h)

\* every goroutine that can take a step is scheduled, and the origin answers:
\* a call that can proceed does
SpecLive == Init /\ [][NextLive]_vars /\ \A p \in Pair : WF_vars(Proceed(p))

\* New called on whatever is at cachedPath, and then one caller whose calls
\* meet no failure
NextNew ==
    \/ NewCachedDownloader
    \/ /\ calls >= 0
       /\ \/ \E k \in SeqKeys : Fetch(1, "u1", k)
          \/ Calm(1, SeqInfos, SeqBodies, {"noop", "custom"})
          \/ Remove(1)
          \/ Return(1)
          \/ Closes

SpecNew == InitDisk /\ [][NextNew]_vars

\* three callers, cached and uncached, that nobody cancels; the origin answers
\* every request, at times with a status that is an error
NextCalm ==
    \E p \in Procs :
        \/ \E k \in NetKeys : Fetch(p, "u1", k)
        \/ Proceed(p)
        \/ BadStatus(p)
        \/ ErrClose(p)
        \/ Return(p)

SpecCalm == Init /\ [][NextCalm]_vars

\* one caller whose calls meet no failure of network, origin or transformer
NextOk ==
    \/ \E k \in SeqKeys : Fetch(1, "u1", k)
    \/ Calm(1, SeqInfos, SeqBodies, {"noop", "custom"})
    \/ Remove(1)
    \/ Return(1)
    \/ Closes

SpecOk == Init /\ [][NextOk]_vars

----------------------------------------------------------------------------
(* Properties *)

\* the gated section of a call: from taking the gate of its key to the deferred
\* releaseLimiter
GatePcs == {"get", "barrier", "request", "copy", "transform", "closecur",
            "install", "errclose", "release"}

InGate(p) == Gated(st[p]) /\ st[p].pc \in GatePcs

Holders(k) == {p \in Procs : InGate(p) /\ st[p].key = k}

\* C1 (single-flight per key): at every instant at most one call, of Fetch or of
\* FetchAsDirectory, is inside the gated section of a key, whatever path it is
\* on (download, error, cancellation), and the gate map names exactly that call
C1_SingleFlight ==
    \A k \in AllKeys :
        /\ Cardinality(Holders(k)) <= 1
        /\ \A p \in Procs : p \in Holders(k) <=> inProgress[k] = p

\* a call is downloading under the gate of a key while another call for the
\* same key is parked on that gate
C1_Witness ==
    \E p, q \in Procs :
        /\ p # q
        /\ st[p].key = st[q].key
        /\ InGate(p) /\ st[p].pc = "copy"
        /\ st[q].pc = "wait" /\ st[q].obs = p

\* C2 (budget): whatever Fetch / FetchAsDirectory calls and closes have happened,
\* the sizes of the indexed entries add up to at most maxSizeInBytes
C2_Budget == UsedSpace(entries) <= MaxSizeInBytes

\* a call has just been admitted next to another entry, and the index is more
\* than half full
C2_Witness ==
    /\ st[1].pc = "release" /\ st[1].path = "added"
    /\ Cardinality(DOMAIN entries) = 2
    /\ 2 * UsedSpace(entries) > MaxSizeInBytes

\* the generations on which somebody holds an open reader or directory: the
\* handles returned to the callers, and the probe's handle of a call in progress
HandleIds == {<<h.key, h.gen>> : h \in {x \in BagToSet(held) : x.kind \in {"cached", "dir"}}}

ProbeIds ==
    {<<st[p].key, st[p].cur>> :
        p \in {q \in Procs : st[q].cur # 0
                              /\ st[q].pc \in {"barrier", "request", "copy", "transform",
                                               "closecur", "errclose"}}}

OpenIds == HandleIds \cup ProbeIds

\* C3 (pin safety): no step deletes or rewrites the file of a generation on which
\* a handle is open after the step, whether the step evicts, removes or replaces
\* its entry; such a file has a positive refcount
C3_PinSafety ==
    [][\A id \in OpenIds' :
          /\ id \in DOMAIN files'
          /\ files'[id].refcount > 0
          /\ id \in DOMAIN files => files'[id].content = files[id].content]_vars

\* a caller still holds a handle on a generation that has been unlinked from the
\* index
C3_Witness ==
    \E id \in HandleIds :
        /\ id \in DOMAIN files
        /\ id[1] \notin DOMAIN entries \/ entries[id[1]].gen # id[2]

\* position of an indexed key in the recency order
Pos(k) == CHOOSE i \in 1..Len(lru) : lru[i] = k

\* C4 (LRU eviction): when Add admits an artifact for key k, the entries it
\* evicts all have refcount 0, each of them was accessed less recently than every
\* unpinned entry that stays, the artifact fits once they are gone, and it would
\* not fit if the most recently accessed of them had been kept
C4_LruEviction ==
    [][\A p \in Procs :
          st[p].pc = "install" /\ st'[p].path = "added" =>
              LET k == st[p].key
                  size == st[p].dl.size
                  others == DOMAIN entries \ {k}
                  V == others \ DOMAIN entries'
              IN /\ \A v \in V : ~Pinned(entries, files, v)
                 /\ \A v \in V, u \in others \ V :
                        Pinned(entries, files, u) \/ Pos(v) < Pos(u)
                 /\ SumSizes(entries, others \ V) + size <= MaxSizeInBytes
                 /\ \A v \in V :
                        (\A w \in V : Pos(w) <= Pos(v)) =>
                            SumSizes(entries, others \ (V \ {v})) + size > MaxSizeInBytes
                 /\ DOMAIN entries' = (others \ V) \cup {k}]_vars

\* Add has just admitted 513 bytes next to a pinned entry of 256 bytes that is
\* the least recently accessed, and a key admitted before is gone from the index
C4_Witness ==
    /\ st[1].pc = "release" /\ st[1].path = "added" /\ st[1].dl.size = 513
    /\ Len(lru) = 2
    /\ lru[1] # st[1].key /\ Pinned(entries, files, lru[1]) /\ entries[lru[1]].size = 256
    /\ \E v \in ScenKeys : nextGen[v] > 0 /\ v \notin DOMAIN entries

\* C5 (read recency): once A has been revalidated with a 304 it is the most
\* recently accessed entry, and when A, B, C (256 bytes each, each closed), the
\* revalidation of A and D (513 bytes) have been fetched under a budget of 1024
\* the index holds exactly A and D
C5_ReadRecency ==
    /\ scen \in {7, 8} /\ Active = {} => lru # <<>> /\ lru[Len(lru)] = "A"
    /\ scen = 9 => DOMAIN entries = {"A", "D"}

\* the scenario has run to its end, and the handle of the revalidation was
\* closed before D was fetched: only its recency kept A
C5_Witness ==
    /\ scen = 9
    /\ <<"A", 1>> \in DOMAIN files /\ files[<<"A", 1>>].refcount = 0

\* caller p takes a step
Moves(p) == st'[p] # st[p]

\* a delete-on-close handle is closed in this step
ClosesTemp(h) == h.kind = "temp" /\ BagIn(h, held) /\ held' = held (-) One(h)

C7_NonCacheable ==
    [][\A p \in Procs :
          /\ st[p].pc = "install" /\ ~st[p].dir /\ Moves(p)
          /\ ~isCacheable(st[p].dl.cachingInfo)
          => /\ st[p].key \notin DOMAIN entries'
             /\ \A k \in DOMAIN entries \ {st[p].key} :
                    k \in DOMAIN entries' /\ entries'[k] = entries[k]
             /\ st'[p].pc = "release" /\ st'[p].err = ""
             /\ st'[p].out = tempFileRemoveOnClose(st[p].dl.path)
             /\ BagIn(st[p].dl.path, uncached')]_vars

\* Fetch is about to return after a response without validators for a key that
\* had an entry when the call probed the index
C7_Witness ==
    /\ st[1].pc = "release" /\ st[1].path = "noncacheable" /\ ~st[1].dir
    /\ st[1].cur # 0 /\ st[1].out.kind = "temp"

UncachedCall(s) == s.pc # "idle" /\ s.key = "" /\ ~s.dir

\* C8 (uncached fetch): a call of Fetch with the empty key never enters the
\* gate, sends the zero validator, leaves index, recency, cache directory and
\* gate map as they are whatever the response carries, returns a delete-on-close
\* handle on a file of the uncached directory, and closing such a handle
\* removes the file
C8_UncachedFetch ==
    [][/\ \A p \in Procs :
            (UncachedCall(st[p]) \/ UncachedCall(st'[p])) /\ Moves(p)
            => /\ entries' = entries /\ lru' = lru /\ files' = files
               /\ inProgress' = inProgress /\ nextGen' = nextGen
               /\ st'[p].pc \in {"barrier", "request", "copy", "transform", "done", "idle"}
               /\ st'[p].cinfo = NoInfo /\ st'[p].cur = 0
               /\ st[p].pc = "transform" /\ st'[p].pc = "done" /\ st'[p].err = ""
                    => /\ st'[p].out.kind = "temp"
                       /\ st'[p].out = tempFileRemoveOnClose(st'[p].dl.path)
                       /\ BagIn(st'[p].out.content, uncached')
       /\ \A h \in BagToSet(held) :
            ClosesTemp(h) => /\ BagIn(h.content, uncached)
                             /\ uncached' = uncached (-) One(h.content)
                             /\ entries' = entries]_vars

\* an uncached fetch whose response carried an ETag is about to return its
\* handle while the index holds an entry
C8_Witness ==
    /\ st[1].pc = "done" /\ st[1].key = "" /\ st[1].path = "uncached"
    /\ st[1].dl.cachingInfo = WithETag("e1") /\ st[1].out.kind = "temp"
    /\ entries # <<>>

\* the validator the index stores for key k in index e, zero when it has none
StoredInfo(e, k) == IF k \in DOMAIN e THEN e[k].info ELSE NoInfo

\* what C9 says of the validators: a gated Fetch that waits for its permit, has
\* its request out or streams the body sent the validator the index stores for
\* its key, the zero validator when the key has no entry; the download hands
\* on the validator of its response, Add stores it, and nothing else changes
\* the validator of an entry
ValidatorRoundTrip ==
    /\ \A p \in Procs :
          /\ Gated(st'[p]) /\ ~st'[p].dir /\ st'[p].pc \in {"barrier", "request", "copy"}
                => st'[p].cinfo = StoredInfo(entries', st'[p].key)
          /\ st[p].pc = "transform" /\ st'[p].pc \in {"closecur", "install"}
                => st'[p].dl.cachingInfo = st[p].resp.info
          /\ st[p].pc = "install" /\ st'[p].path = "added"
                => StoredInfo(entries', st[p].key) = st[p].dl.cachingInfo
    /\ \A k \in DOMAIN entries \cap DOMAIN entries' :
          entries'[k].info # entries[k].info
              => \E p \in Procs : st[p].key = k /\ st[p].pc = "install"
                                   /\ st'[p].path = "added"

\* a gated Fetch returns a delete-on-close handle in this step
ServedUncached(p) ==
    /\ st[p].pc = "release" /\ st'[p].pc = "idle" /\ ~st[p].dir
    /\ st[p].path \in {"nospace", "noncacheable"}

\* C9 as stated (conditional round-trip): the validator sent is the stored one,
\* none without an entry, and after a fetch that was served uncached the index
\* holds no entry for the key, so that the next fetch sends none
C9_Original ==
    [][/\ ValidatorRoundTrip
       /\ \A p \in Procs : ServedUncached(p) => st[p].key \notin DOMAIN entries]_vars

\* C9 (conditional round-trip), amended: the validator sent is the stored one,
\* none without an entry; after a fetch served uncached for want of a validator
\* the key has no entry, after one served uncached for want of space the key
\* has the entry the call found, if any, with its validator
C9_RoundTrip ==
    [][/\ ValidatorRoundTrip
       /\ \A p \in Procs :
            ServedUncached(p) =>
                IF st[p].path = "noncacheable" \/ st[p].cur = 0
                THEN st[p].key \notin DOMAIN entries
                ELSE /\ st[p].key \in DOMAIN entries
                     /\ entries[st[p].key].gen = st[p].cur
                     /\ entries[st[p].key].info = st[p].cinfo]_vars

\* a Fetch that sent the Last-Modified validator of its key's entry is about to
\* return a download that did not fit, and the entry is still in the index
C9_Witness ==
    /\ st[1].pc = "release" /\ st[1].path = "nospace" /\ ~st[1].dir
    /\ st[1].cur # 0 /\ st[1].cinfo = WithLastModified("m1")
    /\ StoredInfo(entries, st[1].key) = WithLastModified("m1")

\* C10 (warm return): when the probe of a Fetch found an entry and the origin
\* answers 304, the call returns no error, size 0 and the probe's handle, which
\* is on the current generation of the entry; the file of that generation is
\* there, an admitted file holds the transformed download, and the content of
\* a file in the cache directory never changes
C10_WarmReturn ==
    [][/\ \A p \in Procs :
            /\ st[p].pc = "request" /\ st'[p].path = "warm"
                 /\ Gated(st[p]) /\ ~st[p].dir /\ st[p].cur # 0
                 => /\ st'[p].pc = "release" /\ st'[p].err = "" /\ st'[p].size = 0
                    /\ st'[p].out = CachedHandle(st[p].key, st[p].cur)
                    /\ st[p].key \in DOMAIN entries'
                    /\ entries'[st[p].key].gen = st[p].cur
                    /\ <<st[p].key, st[p].cur>> \in DOMAIN files'
                    /\ entries' = entries /\ files' = files
            /\ st[p].pc = "install" /\ st'[p].path = "added"
                 => files'[<<st[p].key, entries'[st[p].key].gen>>].content = st[p].dl.path
       /\ \A id \in DOMAIN files \cap DOMAIN files' :
            files'[id].content = files[id].content]_vars

\* a Fetch is about to return the handle of its probe after a 304 while another
\* handle is open on the same generation
C10_Witness ==
    \E p \in Procs :
        /\ st[p].pc = "release" /\ st[p].path = "warm" /\ ~st[p].dir
        /\ st[p].out = CachedHandle(st[p].key, st[p].cur)
        /\ files[<<st[p].key, st[p].cur>>].refcount = 2

\* the calls of Download that have passed the barrier and not yet returned
Downloading == {p \in Procs : st[p].pc \in {"request", "copy"}}

\* C11 (download concurrency bound): the calls of Download past the barrier,
\* cached or uncached and whatever their keys, are as many as the permits taken
\* and at most maxConcurrentDownloads; a call has a request out or a body
\* streaming only while it is one of them
C11_DownloadBound ==
    /\ permits = Cardinality(Downloading)
    /\ Cardinality(Downloading) <= MaxConcurrentDownloads
    /\ permits >= 0

\* an uncached fetch streams a body with the last permit while a fetch for a key
\* waits at the barrier
C11_Witness ==
    \E p, q \in Procs :
        /\ st[p].pc = "copy" /\ st[p].key = ""
        /\ st[q].pc = "barrier" /\ st[q].key = "A"
        /\ permits = MaxConcurrentDownloads

\* an HTTP attempt of the call is under way
InDownload(s) == s.pc \in {"request", "copy"}

\* the call has left Download
AfterDownload(s) ==
    s.pc \in {"transform", "closecur", "install", "errclose", "release", "done"}

\* the errors of an attempt that are not cancellations
AttemptErrors == {"network", "DownloadFailed", "ChecksumMismatch"}

\* C12 (retry bound): a call of Download numbers its attempts 0, 1, 2 and makes
\* no fourth; a new attempt follows a failed one only; a 304 and a 200 whose
\* body passes verification end the call of Download at once and for good; an
\* error that is not a cancellation is returned only when the third attempt
\* has failed, and it is the error of that attempt
C12_RetryBound ==
    [][\A p \in Procs :
          LET s == st[p]
              t == st'[p]
          IN /\ InDownload(t) => t.attempt < MAX_DOWNLOAD_ATTEMPTS
             /\ s.pc = "barrier" /\ InDownload(t) => t.pc = "request" /\ t.attempt = 0
             /\ InDownload(s) /\ InDownload(t) /\ t.attempt # s.attempt
                  => t.pc = "request" /\ t.attempt = s.attempt + 1
             /\ s.pc = "request" /\ t.path = "warm"
                  => AfterDownload(t) /\ t.err \notin AttemptErrors
             /\ s.pc = "copy" /\ t.pc = "transform"
                  => /\ t.err = ""
                     /\ LET sum == convertETagToChecksum(t.resp.info.ETag)
                        IN sum.ok => sum.sum = t.resp.body
             /\ AfterDownload(s) => ~InDownload(t) /\ t.pc # "barrier"
             /\ InDownload(s) /\ ~InDownload(t) /\ t.err \in AttemptErrors
                  => /\ s.attempt = MAX_DOWNLOAD_ATTEMPTS - 1
                     /\ t.pc = AfterError(s)
                     /\ s.pc = "request" => t.err \in {"network", "DownloadFailed"}
                     /\ s.pc = "copy" => t.err \in {"network", "ChecksumMismatch"}]_vars

\* a call has given up after its third attempt, whose body did not match the
\* MD5 of the ETag
C12_Witness ==
    \E p \in Procs :
        /\ st[p].pc \in {"errclose", "done"}
        /\ st[p].err = "ChecksumMismatch"
        /\ st[p].attempt = MAX_DOWNLOAD_ATTEMPTS - 1

\* the errors that are a DownloadCancelledError
Cancelled(e) ==
    e \in {"cancelled:acquire-limiter", "cancelled:download-barrier",
           "cancelled:fetch-request", "cancelled:copy-body"}

\* the attempt of caller p that was under way is over after this step
AttemptEnds(p) ==
    /\ InDownload(st[p])
    /\ ~InDownload(st'[p]) \/ st'[p].attempt # st[p].attempt

\* C13 as stated (cancellation breaks retries): once the cancel signal of a
\* call has been raised, the attempt under way ends with DownloadCancelled and
\* no other attempt follows
C13_Original ==
    [][\A p \in Procs :
          st[p].cancel /\ AttemptEnds(p)
              => Cancelled(st'[p].err) /\ ~InDownload(st'[p])]_vars

\* C13 (cancellation breaks retries), amended: when the round-trip or the copy
\* of an attempt fails while the cancel signal is raised, the attempt ends with
\* DownloadCancelled and the call leaves Download whatever the number of
\* attempts made; a call whose error is DownloadCancelled makes no attempt any
\* more; and DownloadCancelled is returned only to a call whose signal was raised
C13_CancelBreaks ==
    [][\A p \in Procs :
          LET s == st[p]
              t == st'[p]
          IN /\ s.cancel /\ (RequestError(p) \/ CopyError(p))
                  => /\ Cancelled(t.err)
                     /\ t.pc = AfterError(s)
                     /\ t.attempt = s.attempt
             /\ Cancelled(s.err) => ~InDownload(t) /\ t.pc # "barrier"
             /\ Cancelled(t.err) /\ ~Cancelled(s.err) => s.cancel]_vars

\* a call that was already at its second attempt has been cancelled while the
\* body was streaming
C13_Witness ==
    \E p \in Procs :
        /\ st[p].err = "cancelled:copy-body"
        /\ st[p].attempt = 1
        /\ st[p].pc \in {"errclose", "done"}

\* the phase a DownloadCancelledError names, by the place the call was at
PhaseOf(pc) ==
    CASE pc = "wait" -> "cancelled:acquire-limiter"
      [] pc = "barrier" -> "cancelled:download-barrier"
      [] pc = "request" -> "cancelled:fetch-request"
      [] pc = "copy" -> "cancelled:copy-body"
      [] OTHER -> ""

\* C14 (cancellation phases): a call gets DownloadCancelled only when its
\* signal is raised, and the error names the phase the call was in when the
\* cancellation took effect: acquire-limiter at the gate, download-barrier at
\* the barrier, fetch-request in the round-trip, copy-body in the copy; bytes
\* written is -1 except in copy-body, where it is what was copied; a cancelled
\* call that leaves the gate unwoken, or the barrier with no permit free, leaves
\* with that error; and the error is the one the call returns
C14_CancelPhases ==
    [][\A p \in Procs :
          LET s == st[p]
              t == st'[p]
          IN /\ Cancelled(t.err) /\ ~Cancelled(s.err)
                  => /\ s.cancel
                     /\ t.err = PhaseOf(s.pc)
                     /\ IF s.pc = "copy" THEN t.written >= 0
                                         ELSE t.written = -1
             /\ s.pc = "wait" /\ s.cancel /\ ~s.woken /\ t.pc # "wait"
                  => t.err = "cancelled:acquire-limiter" /\ t.pc = "done"
             /\ s.pc = "barrier" /\ s.cancel /\ t.pc # "barrier"
                     /\ permits = MaxConcurrentDownloads
                  => t.err = "cancelled:download-barrier"
             /\ Cancelled(s.err) /\ t.pc # "idle"
                  => t.err = s.err /\ t.written = s.written]_vars

\* one call has been cancelled at the gate of the key while the call that holds
\* the gate has been cancelled after 256 bytes of the body
C14_Witness ==
    \E p, q \in Procs :
        /\ st[p].err = "cancelled:acquire-limiter" /\ st[p].written = -1
        /\ st[q].err = "cancelled:copy-body" /\ st[q].written = 256
        /\ st[p].key = st[q].key

\* the call of caller p returns to its caller in this step
Returns(p) == st[p].pc \in {"release", "done"} /\ st'[p].pc = "idle"

\* the readers and directories open on generation id: the handles the callers
\* hold, the probe's handle of a call in progress, the handle a call is about
\* to return
RefHolders(id) ==
    CopiesIn(CachedHandle(id[1], id[2]), held)
    + CopiesIn(DirHandle(id[1], id[2]), held)
    + Cardinality({p \in Procs :
          /\ st[p].key = id[1] /\ st[p].cur = id[2]
          /\ st[p].pc \in {"barrier", "request", "copy", "transform",
                            "closecur", "errclose"}})
    + Cardinality({p \in Procs :
          /\ st[p].pc = "release"
          /\ st[p].out \in {CachedHandle(id[1], id[2]), DirHandle(id[1], id[2])}})

\* C15 (cancellation frees resources): the uncached directory holds a partial
\* download for each body being streamed and no other; and when a cancelled
\* call has returned, whatever the phase, no gate names it, every permit taken
\* is that of another call past the barrier, the step that cancelled a copy
\* removed the partial file, and every generation in the cache directory has
\* as many references as readers still open, the probe's pin being released
C15_CancelFrees ==
    [][/\ CopiesIn(Partial, uncached')
            = Cardinality({p \in Procs : st'[p].pc = "copy"})
       /\ \A p \in Procs :
            /\ st[p].pc = "copy" /\ Cancelled(st'[p].err)
                 => BagIn(Partial, uncached) /\ uncached' = uncached (-) One(Partial)
            /\ Returns(p) /\ Cancelled(st[p].err)
                 => /\ st[p].out = NoHandle
                    /\ \A k \in AllKeys : inProgress'[k] # p
                    /\ p \notin Downloading'
                    /\ permits' = Cardinality(Downloading')
                    /\ \A id \in DOMAIN files' :
                          files'[id].refcount = RefHolders(id)']_vars

\* a call that found an entry and pinned it has been cancelled while the body
\* was streaming and is about to return: the pin, the partial file and the
\* permit are gone
C15_Witness ==
    \E p \in Procs :
        /\ st[p].pc = "release" /\ st[p].err = "cancelled:copy-body"
        /\ st[p].cur # 0
        /\ <<st[p].key, st[p].cur>> \in DOMAIN files
        /\ files[<<st[p].key, st[p].cur>>].refcount = 0
        /\ uncached = EmptyBag
        /\ permits = 0

\* the callers other than p are where they were
OthersUntouched(p) == \A q \in Procs \ {p} : st'[q] = st[q]

\* C16 (cancelling one caller does not cancel others): a caller cancelled at
\* the gate leaves, and later returns, with the gate map and every other
\* caller as they were; when the holder releases, each caller waiting on its
\* gate is woken and nobody else is touched; a woken waiter goes back to the
\* look-up, cancelled or not unless its own signal was raised, and takes the
\* gate if it is free; and no waiter sleeps on a gate that has been released
C16_OthersProceed ==
    [][\A p \in Procs :
          LET s == st[p]
              t == st'[p]
          IN /\ s.pc = "wait" /\ Cancelled(t.err)
                  => inProgress' = inProgress /\ OthersUntouched(p)
             /\ Returns(p) /\ s.err = "cancelled:acquire-limiter"
                  => inProgress' = inProgress /\ OthersUntouched(p)
             /\ s.pc = "release" /\ t.pc = "idle"
                  => \A q \in Procs \ {p} :
                        IF st[q].pc = "wait" /\ st[q].obs = p
                        THEN st'[q] = [st[q] EXCEPT !.woken = TRUE]
                        ELSE st'[q] = st[q]
             /\ s.pc = "wait" /\ t.pc # "wait"
                  => \/ s.woken /\ t.pc = "acquire" /\ t.err = ""
                     \/ s.cancel /\ t.pc = "done"
             /\ s.pc = "acquire" /\ Moves(p)
                  => IF inProgress[s.key] = 0
                     THEN t.pc = "get" /\ inProgress'[s.key] = p
                     ELSE /\ t.pc = "wait" /\ ~t.woken /\ t.obs = inProgress[s.key]
                          /\ inProgress' = inProgress
             /\ t.pc = "wait" /\ ~t.woken
                  => t.obs # 0 /\ inProgress'[t.key] = t.obs]_vars

\* of two callers that waited on the gate of a third, one has been cancelled and
\* the other has been woken by the release
C16_Witness ==
    \E p, q, r \in Procs :
        /\ st[p].pc = "done" /\ st[p].err = "cancelled:acquire-limiter"
        /\ st[q].pc = "wait" /\ st[q].woken /\ st[q].key = st[p].key
        /\ st[r].pc = "idle"
        /\ inProgress[st[p].key] = 0

\* the gated calls in progress
GatedActive == {p \in Procs : st[p].pc # "idle" /\ Gated(st[p])}

\* the ways a gated call that took the gate comes to its return
ReturnPaths == {"added", "warm", "error", "nospace", "noncacheable"}

\* C17 (no gate leak): a call that has taken the gate of its key keeps it
\* until it returns, it returns only through releaseLimiter, on each of its
\* paths (admitted, 304, error of the download or the transformer,
\* cancellation, NotEnoughSpace, NotCacheable), which leaves the key without
\* gate; and whenever no gated call is in progress the gate map is empty
C17_NoGateLeak ==
    [][/\ \A p \in Procs :
            InGate(p) =>
                IF st'[p].pc = "idle"
                THEN /\ st[p].pc = "release" /\ st[p].path \in ReturnPaths
                     /\ inProgress[st[p].key] = p
                     /\ inProgress'[st[p].key] = 0
                ELSE /\ st'[p].pc \in GatePcs /\ st'[p].key = st[p].key
                     /\ inProgress'[st[p].key] = p
       /\ GatedActive' = {} => \A k \in AllKeys : inProgress'[k] = 0]_vars

\* a call whose transformer failed is about to release the gate another call
\* waits on
C17_Witness ==
    \E p, q \in Procs :
        /\ st[p].pc = "release" /\ st[p].err = "transform"
        /\ inProgress[st[p].key] = p
        /\ st[q].pc = "wait" /\ st[q].obs = p

\* the handles on generation id that callers hold
HandlesHeld(id) ==
    CopiesIn(CachedHandle(id[1], id[2]), held) + CopiesIn(DirHandle(id[1], id[2]), held)

\* C18 (refcount conservation): the refcount of every generation in the cache
\* directory is the number of readers open on it: the handles returned and not
\* yet closed, the probe's reader of a call that has not yet closed or returned
\* it, and the handle a call is about to return; so a call that has closed its
\* probe's reader (error, replacement, NotEnoughSpace, not cacheable) counts for
\* nothing, and at a quiescent point the refcount is the number of handles held
C18_RefcountConservation ==
    /\ \A id \in DOMAIN files : files[id].refcount = RefHolders(id)
    /\ Active = {} => \A id \in DOMAIN files : files[id].refcount = HandlesHeld(id)
    /\ \A h \in BagToSet(held) :
          h.kind \in {"cached", "dir"} => <<h.key, h.gen>> \in DOMAIN files

\* a call that pinned a generation two callers hold handles on has failed and
\* is about to return: the refcount is two again
C18_Witness ==
    /\ st[1].pc = "release" /\ st[1].path = "error" /\ ~st[1].dir
    /\ st[1].cur # 0
    /\ HandlesHeld(<<st[1].key, st[1].cur>>) = 2
    /\ files[<<st[1].key, st[1].cur>>].refcount = 2

\* C19 (temp-file cleanup on errors): when a call of Fetch or FetchAsDirectory
\* returns an error, whichever step failed, every file of the uncached
\* directory backs a handle a caller holds or belongs to a call in progress:
\* nothing of the failed call is left
C19_TempCleanup ==
    [][\A p \in Procs : Returns(p) /\ st[p].err # "" => Leaked' = 0]_vars

\* the contents of the files of the uncached directory and of the open
\* delete-on-close handles
TempContents ==
    BagToSet(uncached) \cup {h.content : h \in {x \in BagToSet(held) : x.kind = "temp"}}

BeforeFile == {"acquire", "wait", "get", "barrier", "request", "copy"}

\* C21 (download failure): a status other than 200 and 304 on the third
\* attempt makes Download fail with DownloadFailed; the call then returns that
\* error and no handle; and no step of a call that has not got a file from
\* Download, or that carries this error, changes the entries of the index,
\* their sizes, validators or generations
C21_DownloadFailed ==
    [][\A p \in Procs :
          LET s == st[p]
              t == st'[p]
          IN /\ BadStatus(p) /\ s.attempt = MAX_DOWNLOAD_ATTEMPTS - 1
                  => t.err = "DownloadFailed" /\ t.pc = AfterError(s)
             /\ t.err = "DownloadFailed" /\ s.err # "DownloadFailed"
                  => s.pc = "request" /\ s.attempt = MAX_DOWNLOAD_ATTEMPTS - 1
             /\ s.err = "DownloadFailed"
                  => /\ s.out = NoHandle /\ s.dl = NoDownload
                     /\ t.pc # "idle" => t.err = "DownloadFailed"
                     /\ Moves(p) => t.pc \in {"release", "done", "idle"}
             /\ Moves(p) /\ (s.pc \in BeforeFile \/ s.err = "DownloadFailed")
                  => entries' = entries]_vars

\* a call that found an entry for its key is about to return DownloadFailed,
\* and the entry is in the index as it was found
C21_Witness ==
    /\ st[1].pc = "release" /\ st[1].err = "DownloadFailed" /\ ~st[1].dir
    /\ st[1].cur # 0
    /\ st[1].key \in DOMAIN entries
    /\ entries[st[1].key].gen = st[1].cur
    /\ entries[st[1].key].info = st[1].cinfo

\* the 32 hexadecimal digits of the MD5 of a body
MD5Hex(body) ==
    CASE body = "b256" -> "h256"
      [] body = "b513" -> "h513"
      [] body = "b3072" -> "h3072"
      [] OTHER -> "h0"

\* an ETag that reads as 32 hexadecimal digits
IsMD5Hex(etag) == etag \in {"h0", "h256", "h513", "h3072"}

\* headers and bytes that pass the check of the checksum
Agree(info, content) == IsMD5Hex(info.ETag) => info.ETag = MD5Hex(content)

\* C22 (checksum enforcement): a 200 response whose ETag is the hex of an MD5
\* is accepted only when it is the MD5 of the body streamed; otherwise the
\* attempt fails with ChecksumMismatch, its file is removed, the attempt is
\* retried within the bound of MAX_DOWNLOAD_ATTEMPTS, and nothing reaches the
\* index or the caller; so the bytes of every accepted response, of every
\* download handed on and of every entry agree with their ETag
C22_ChecksumEnforced ==
    [][\A p \in Procs :
          LET s == st[p]
              t == st'[p]
          IN /\ \A info \in NetInfos, body \in NetBodies :
                   CopyDone(p, info, body) =>
                       IF Agree(info, body)
                       THEN /\ t.pc = "transform"
                            /\ t.resp = [info |-> info, body |-> body]
                            /\ uncached' = (uncached (-) One(Partial)) (+) One(body)
                       ELSE /\ uncached' = uncached (-) One(Partial)
                            /\ t.resp = NoResp /\ t.dl = NoDownload /\ t.out = NoHandle
                            /\ entries' = entries /\ files' = files /\ held' = held
                            /\ IF s.attempt + 1 < MAX_DOWNLOAD_ATTEMPTS
                               THEN t.pc = "request" /\ t.attempt = s.attempt + 1
                                    /\ t.err = ""
                               ELSE t.pc = AfterError(s) /\ t.err = "ChecksumMismatch"
             /\ t.resp # NoResp => Agree(t.resp.info, t.resp.body)
             /\ t.dl # NoDownload => Agree(t.dl.cachingInfo, t.dl.path)
             /\ t.out # NoHandle /\ t.out.kind = "temp"
                  => Agree(t.dl.cachingInfo, t.out.content)
       /\ \A k \in DOMAIN entries' :
             Agree(entries'[k].info, files'[<<k, entries'[k].gen>>].content)]_vars

\* a call that found an entry whose ETag is the MD5 of its bytes has met a
\* body that is not the one of the ETag on each attempt and is about to return
\* ChecksumMismatch; the entry and its bytes are as they were
C22_Witness ==
    \E p \in Procs :
        /\ st[p].pc = "release" /\ st[p].err = "ChecksumMismatch"
        /\ st[p].cur # 0 /\ st[p].out = NoHandle
        /\ st[p].key \in DOMAIN entries
        /\ entries[st[p].key] = [gen |-> st[p].cur, size |-> 513, info |-> WithETag("h513")]
        /\ files[<<st[p].key, st[p].cur>>].content = "b513"
        /\ Partial \notin BagToSet(uncached)

\* a call of FetchAsDirectory holds a cacheable expanded download that is too
\* big for the budget beside the entries of other keys that are held open
DirectoryTooBig(s) ==
    /\ s.pc = "install" /\ s.dir
    /\ isCacheable(s.dl.cachingInfo)
    /\ SumSizes(entries, {k \in DOMAIN entries \ {s.key} : Pinned(entries, files, k)})
          + s.dl.size > MaxSizeInBytes

\* C23 (FetchAsDirectory surfaces NotEnoughSpace): when the expanded tree does
\* not fit, the call returns NotEnoughSpace and the empty path and the index
\* is as before; and a non-empty path returned by FetchAsDirectory comes
\* without an error and is the directory of the entry the index has for the
\* key, whose generation is in the cache directory
C23_DirectoryNotEnoughSpace ==
    [][\A p \in Procs :
          LET s == st[p]
              t == st'[p]
          IN /\ DirectoryTooBig(s) /\ Moves(p)
                  => /\ t.pc = "release"
                     /\ t.err = "NotEnoughSpace" /\ t.out = NoHandle
                     /\ entries' = entries /\ files' = files /\ lru' = lru
             /\ s.dir /\ s.err = "NotEnoughSpace" => s.out = NoHandle
             /\ Returns(p) /\ s.dir /\ s.out # NoHandle
                  => /\ s.err = ""
                     /\ s.out.kind = "dir" /\ s.out.key = s.key
                     /\ s.key \in DOMAIN entries
                     /\ entries[s.key].gen = s.out.gen
                     /\ <<s.key, s.out.gen>> \in DOMAIN files
                     /\ held' = held (+) One(s.out)]_vars

\* FetchAsDirectory is about to return NotEnoughSpace for a tree that would
\* fit the budget alone: the entry of another key is held open and cannot be
\* evicted
C23_Witness ==
    /\ st[1].pc = "release" /\ st[1].dir
    /\ st[1].err = "NotEnoughSpace" /\ st[1].out = NoHandle
    /\ st[1].dl.size <= MaxSizeInBytes
    /\ \E k \in DOMAIN entries : k # st[1].key /\ HandlesHeld(<<k, entries[k].gen>>) > 0

\* C24 (FetchAsDirectory and non-cacheable responses): when the 200 response
\* carries no validator, FetchAsDirectory returns NotCacheable and the empty
\* path, and the index has no entry for the key when the call returns
C24_DirectoryNotCacheable ==
    [][\A p \in Procs :
          LET s == st[p]
              t == st'[p]
          IN /\ s.pc = "install" /\ s.dir /\ ~isCacheable(s.dl.cachingInfo) /\ Moves(p)
                  => /\ t.pc = "release"
                     /\ t.err = "NotCacheable" /\ t.out = NoHandle
                     /\ t.key \notin DOMAIN entries'
             /\ s.dir /\ s.err = "NotCacheable"
                  => s.out = NoHandle /\ s.key \notin DOMAIN entries
             /\ t.err = "NotCacheable" => t.dir /\ t.dl.cachingInfo = NoInfo]_vars

\* FetchAsDirectory is about to return NotCacheable; the entry it found for
\* the key is gone from the index
C24_Witness ==
    /\ st[1].pc = "release" /\ st[1].dir
    /\ st[1].err = "NotCacheable" /\ st[1].out = NoHandle
    /\ st[1].cur # 0
    /\ st[1].key \notin DOMAIN entries

\* the directories the callers hold
DirsHeld == {h \in BagToSet(held) : h.kind = "dir"}

\* the caller closes directory h in this step
ClosesDir(h) == h.kind = "dir" /\ BagIn(h, held) /\ held' = held (-) One(h)

\* C25 (directory pin pairing): a FetchAsDirectory that returns a directory
\* adds that one directory to those held on its generation, whose pins are
\* then as many as the handles open on it; a FetchAsDirectory that fails returns nothing and
\* leaves the pins of every generation at the number of handles open on it;
\* CloseDirectory takes one pin off the generation of the directory closed,
\* which is deleted only if that was its last pin and it is superseded; and as
\* long as a directory is held its generation is in the cache directory,
\* with its content and at least as many pins as directories held on it
C25_DirectoryPins ==
    [][/\ \A p \in Procs :
            LET s == st[p]
                id == <<s.key, s.out.gen>>
            IN Returns(p) /\ s.dir =>
                  IF s.err = "" /\ s.out # NoHandle
                  THEN /\ s.out.kind = "dir"
                       /\ held' = held (+) One(s.out)
                       /\ files' = files
                       /\ \A i \in {id} :
                             /\ files'[i].refcount = RefHolders(i)'
                             /\ HandlesHeld(i)' = HandlesHeld(i) + 1
                  ELSE /\ s.out = NoHandle /\ s.err # ""
                       /\ held' = held /\ files' = files
                       /\ \A i \in DOMAIN files' : files'[i].refcount = RefHolders(i)'
       /\ \A h \in DirsHeld :
            LET id == <<h.key, h.gen>> IN
            IF ClosesDir(h)
            THEN /\ \A i \in DOMAIN files \ {id} : i \in DOMAIN files' /\ files'[i] = files[i]
                 /\ IF id \in DOMAIN files'
                    THEN files'[id].refcount = files[id].refcount - 1
                    ELSE /\ files[id].refcount = 1
                         /\ h.key \in DOMAIN entries => entries[h.key].gen # h.gen
            ELSE /\ id \in DOMAIN files'
                 /\ files'[id].content = files[id].content
                 /\ files'[id].refcount >= CopiesIn(h, held')
                 /\ CopiesIn(h, held') >= CopiesIn(h, held)]_vars

\* two calls of FetchAsDirectory have returned the same generation, a third
\* has failed, and the generation has the two pins of the directories held
C25_Witness ==
    /\ Active = {} /\ calls = 3
    /\ \E h \in DirsHeld :
          /\ held = One(h) (+) One(h)
          /\ files[<<h.key, h.gen>>].refcount = 2

\* the generations in the cache directory that the index does not point to
Superseded(e, f) == {id \in DOMAIN f : id[1] \notin DOMAIN e \/ e[id[1]].gen # id[2]}

\* C26 (safe replacement): when Add replaces the entry of a key, the new bytes
\* go under a generation the key never had, so under a name that is not in the
\* cache directory, and no file there is rewritten; the superseded generation
\* stays, bytes and pins as they were, if a reader is open on it and is
\* deleted otherwise; a superseded generation has a reader open on it, stays
\* with its bytes while it has, and is deleted by the close of its last reader
C26_SafeReplacement ==
    [][/\ \A p \in Procs :
            LET s == st[p]
                k == s.key
            IN s.pc = "install" /\ st'[p].path = "added" /\ k \in DOMAIN entries =>
                 LET old == <<k, entries[k].gen>>
                     new == <<k, entries'[k].gen>>
                 IN /\ new[2] > nextGen[k] /\ nextGen'[k] = new[2]
                    /\ new # old /\ new \notin DOMAIN files
                    /\ files'[new] = [content |-> s.dl.path, refcount |-> 1]
                    /\ st'[p].out.gen = new[2]
                    /\ IF files[old].refcount > 0
                       THEN old \in DOMAIN files' /\ files'[old] = files[old]
                       ELSE old \notin DOMAIN files'
       /\ \A id \in DOMAIN files : id[2] <= nextGen[id[1]]
       /\ \A id \in Superseded(entries, files) :
            /\ files[id].refcount > 0
            /\ files[id].refcount = RefHolders(id)
            /\ IF files[id].refcount = 1 /\ RefHolders(id)' = 0
               THEN id \notin DOMAIN files'
               ELSE /\ id \in DOMAIN files'
                    /\ files'[id].content = files[id].content
                    /\ id \in Superseded(entries', files')]_vars

\* a Fetch is about to return the generation that has replaced the one it
\* found; a caller still has the superseded generation open, which is in the
\* cache directory with bytes other than the new ones
C26_Witness ==
    /\ st[1].pc = "release" /\ st[1].path = "added" /\ st[1].cur # 0
    /\ st[1].out.gen # st[1].cur
    /\ HandlesHeld(<<st[1].key, st[1].cur>>) = 1
    /\ <<st[1].key, st[1].cur>> \in DOMAIN files
    /\ files[<<st[1].key, st[1].cur>>].content
          # files[<<st[1].key, st[1].out.gen>>].content

\* C27 (cache-key identity): with callers that all give one cache key and
\* any of two URLs, at most one call is inside the gated section and the index
\* has at most one entry; a call sends the validator the index stores for the
\* cache key, whichever URL it came from; and an admitted response leaves the
\* entry of the admitting call alone in the index
C27_KeyIdentity ==
    [][/\ \A p, q \in Procs : InGate(p)' /\ InGate(q)' => p = q
       /\ Cardinality(DOMAIN entries') <= 1
       /\ \A p \in Procs :
            LET s == st[p]
                t == st'[p]
            IN /\ s.pc = "get" /\ Moves(p)
                    => \A k \in GateKeys : t.cinfo = StoredInfo(entries, k)
               /\ s.pc = "install" /\ t.path = "added"
                    => /\ t.dl.cachingInfo = OriginInfo(s.url)
                       /\ \A k \in GateKeys :
                            entries' = (k :> [size |-> s.dl.size, info |-> OriginInfo(s.url),
                                              gen |-> t.out.gen])]_vars

\* a Fetch for the second URL has sent the validator of the first URL's
\* response, which the index stored, has got fresh bytes and has replaced the
\* entry; a Fetch for the first URL waits on the gate it holds
C27_Witness ==
    \E p, q \in Procs :
        /\ st[p].url = "u2" /\ st[p].pc = "release" /\ st[p].path = "added"
        /\ st[p].cinfo = OriginInfo("u1")
        /\ DOMAIN entries = GateKeys
        /\ \A k \in GateKeys : entries[k].info = OriginInfo("u2")
        /\ st[q].url = "u1" /\ st[q].pc = "wait" /\ st[q].obs = p

\* the bytes a caller reads through handle h
BytesOf(h) == IF h.kind = "temp" THEN h.content ELSE files[<<h.key, h.gen>>].content

\* caller p is about to return a handle and no error
Served(p) ==
    /\ st[p].pc = "release" /\ st[p].err = ""
    /\ st[p].out # NoHandle
    /\ BytesOf(st[p].out) \in Bodies

\* C28 (progress under single-flight): when callers call Fetch for one key at
\* the same time, nobody cancels and the origin answers every request, every
\* call leads to its return of a handle, the second without waiting for the
\* first handle to be closed; and as the content at the origin does not
\* change, all the handles returned read the same bytes
C28_Progress ==
    /\ \A p \in Pair : (st[p].pc # "idle") ~> Served(p)
    /\ [](\A g, h \in BagToSet(held) : BytesOf(g) = BytesOf(h))

\* the holder of the gate is about to return its handle while the other
\* caller, who called for the same key in the meantime, is parked on the gate
C28_Witness ==
    \E p, q \in Pair :
        /\ Served(p) /\ st[p].path = "added"
        /\ st[q].pc = "wait" /\ st[q].obs = p /\ st[q].key = st[p].key
        /\ ~st[q].woken

\* C29 (startup wipe): whatever was at cachedPath, absent, empty or with
\* files, New leaves the cache directory there and empty, the index empty, no
\* gate in the gate map and no permit taken; and no file of before New is
\* ever in the cache directory of the coordinator
C29_StartupWipe ==
    [][/\ calls = -1
            => /\ calls' = 0
               /\ files' = <<>>
               /\ entries' = <<>> /\ lru' = <<>>
               /\ \A k \in AllKeys : inProgress'[k] = 0
               /\ permits' = 0
       /\ calls' >= 0
            => /\ DOMAIN files' \cap (DOMAIN NoDirectory \cup DOMAIN Leftovers) = {}
               /\ \A id \in DOMAIN files' : id[1] \in AllKeys /\ id[2] \in 1..nextGen'[id[1]]]_vars

\* New has returned and no call has been made: an empty cache directory, an
\* empty index and an empty gate map
C29_Witness ==
    /\ calls = 0 /\ Active = {}
    /\ files = <<>> /\ files # NoDirectory
    /\ entries = <<>>
    /\ \A k \in AllKeys : inProgress[k] = 0

\* the callers parked on the gate that caller p holds
WaitersOn(p) == {q \in Procs : st[q].pc = "wait" /\ st[q].obs = p}

\* the holder of a gate lets it go in this step
Releases(p) == st[p].pc = "release" /\ st'[p].pc = "idle"

\* what C30 says of every call: a call at its gate carries nothing of the
\* index or of another call; a waiter leaves the gate it waited on only to try
\* for the gate again, or cancelled; a call probes the index only while the
\* gate map names it, and takes from the probe the validator and the
\* generation the index has for its key then; on 304 it returns the handle of
\* that generation; and the holder that lets its gate go wakes its waiters
ProbeUnderOwnGate ==
    \A p \in Procs :
        LET s == st[p]
            t == st'[p]
        IN /\ s.pc \in {"acquire", "wait"}
                => /\ s.cur = 0 /\ s.cinfo = NoInfo
                   /\ s.out = NoHandle /\ s.dl = NoDownload /\ s.resp = NoResp
           /\ s.pc = "wait" /\ t.pc # "wait"
                => /\ t.pc \in {"acquire", "done"}
                   /\ t.pc = "acquire" => s.woken /\ t.cur = 0 /\ t.cinfo = NoInfo
                   /\ t.pc = "done" => s.cancel /\ t.out = NoHandle
                   /\ inProgress' = inProgress
           /\ s.pc = "get" => inProgress[s.key] = p
           /\ s.pc = "get" /\ Moves(p)
                => /\ t.cinfo = StoredInfo(entries, s.key)
                   /\ t.cur = IF s.key \in DOMAIN entries THEN entries[s.key].gen ELSE 0
           /\ s.pc = "request" /\ t.path = "warm" /\ s.cur # 0
                => /\ t.out \in {CachedHandle(s.key, s.cur), DirHandle(s.key, s.cur)}
                   /\ entries[s.key].gen = s.cur
           /\ Releases(p) => \A q \in WaitersOn(p) : st'[q].woken

\* C30 as stated (re-probe after waiting): the waiter probes under its own
\* gate and sends what the index has; and when the holder a caller waits on has
\* failed or was served uncached, the index has no entry for the key, so that
\* the waiter sends no conditional header
C30_Original ==
    [][/\ ProbeUnderOwnGate
       /\ \A p \in Procs :
            Releases(p) /\ WaitersOn(p) # {}
              /\ (st[p].err # "" \/ st[p].path \in {"nospace", "noncacheable"})
              => st[p].key \notin DOMAIN entries]_vars

\* C30 (re-probe after waiting), amended: the waiter probes under its own gate
\* and sends what the index has. When the holder a caller waits on lets the
\* gate go, the index has for the key: the entry the holder admitted; no
\* entry if the holder's response was not cacheable, or if the holder found
\* none and admitted none; and otherwise (the holder failed, was served
\* uncached for want of space, or got 304) the entry the holder found, or
\* none if that has been evicted since
C30_ReProbe ==
    [][/\ ProbeUnderOwnGate
       /\ \A p \in Procs :
            LET s == st[p] IN
            Releases(p) /\ WaitersOn(p) # {} =>
               CASE s.path = "added"
                      -> /\ s.key \in DOMAIN entries
                         /\ entries[s.key].gen = s.out.gen
                         /\ entries[s.key].info = s.dl.cachingInfo
                 [] s.path # "added" /\ (s.path = "noncacheable" \/ s.cur = 0)
                      -> s.key \notin DOMAIN entries
                 [] OTHER
                      -> s.key \in DOMAIN entries
                           => /\ entries[s.key].gen = s.cur
                              /\ entries[s.key].info = s.cinfo]_vars

\* the holder of a gate has failed and is about to let the gate go; the entry
\* it found for the key is in the index as it was, and a caller is parked on
\* the gate, who will find that entry and send its validator
C30_Witness ==
    \E p \in Procs :
        /\ st[p].pc = "release" /\ st[p].err # "" /\ st[p].out = NoHandle
        /\ st[p].cur # 0
        /\ st[p].key \in DOMAIN entries
        /\ entries[st[p].key].gen = st[p].cur
        /\ isCacheable(entries[st[p].key].info)
        /\ WaitersOn(p) # {}

\* a call holds a cacheable file that is too big for the budget beside the
\* entries of other keys that are held open
TooBig(s) ==
    /\ s.pc = "install"
    /\ isCacheable(s.dl.cachingInfo)
    /\ SumSizes(entries, {k \in DOMAIN entries \ {s.key} : Pinned(entries, files, k)})
          + s.dl.size > MaxSizeInBytes

\* C31 (Add is all-or-nothing on NotEnoughSpace): when the unpinned entries
\* cannot free enough bytes for the file of a call, the Add of the call admits
\* nothing and leaves the index and the cache directory exactly as they were:
\* no entry evicted, no size, validator, generation, recency or refcount
\* changed, the entry of the key itself, if any, still there; and the call
\* does not return a cached handle
C31_AddAllOrNothing ==
    [][\A p \in Procs :
          TooBig(st[p]) /\ Moves(p)
            => /\ st'[p].pc = "release" /\ st'[p].path = "nospace"
               /\ entries' = entries /\ lru' = lru /\ files' = files
               /\ nextGen' = nextGen
               /\ st'[p].out = NoHandle \/ st'[p].out.kind = "temp"]_vars

\* Add has answered NotEnoughSpace to a call whose key has an entry, while
\* the entry of another key that no one holds, which an eviction would have
\* taken, is still in the index with its file
C31_Witness ==
    \E k \in DOMAIN entries :
        /\ st[1].pc = "release" /\ st[1].path = "nospace"
        /\ st[1].key \in DOMAIN entries /\ k # st[1].key
        /\ ~Pinned(entries, files, k)
        /\ <<k, entries[k].gen>> \in DOMAIN files

\* the generations whose file comes into the cache directory, or goes from it,
\* in this step
Created == DOMAIN files' \ DOMAIN files

Deleted == DOMAIN files \ DOMAIN files'

\* generation id is the one the index points to
Current(e, id) == id[1] \in DOMAIN e /\ e[id[1]].gen = id[2]

\* C32 as stated (cache-directory ownership): every creation and every
\* deletion of a file of the cache directory is a step of a call that holds
\* the gate of the key the file belongs to
C32_Original ==
    [][\A id \in Created \cup Deleted :
          \E p \in Procs : InGate(p) /\ st[p].key = id[1] /\ Moves(p)]_vars

\* C32 (cache-directory ownership), amended: a file comes into the cache
\* directory only by the Add of the call that holds the gate of its key. A
\* file goes from it in one of three ways: the holder of the gate of its key
\* replaces or removes the entry, and no reader is open on the file; the
\* holder of the gate of another key evicts the entry during its Add, and no
\* reader is open on the file; or a caller, in no call, closes the last
\* reader open on the file, which the index no longer points to
C32_Ownership ==
    [][/\ \A id \in Created :
            \E p \in Procs :
                /\ InGate(p) /\ st[p].key = id[1]
                /\ st[p].pc = "install" /\ st'[p].path = "added"
                /\ st'[p].out.gen = id[2]
       /\ \A id \in Deleted :
            \/ \E p \in Procs :
                  /\ InGate(p) /\ st[p].pc = "install"
                  /\ st'[p].path \in {"added", "noncacheable"}
                  /\ st[p].key # id[1] => st'[p].path = "added" /\ id[1] \notin DOMAIN entries'
                  /\ Current(entries, id)
                  /\ files[id].refcount = 0
            \/ /\ st' = st
               /\ ~Current(entries, id)
               /\ files[id].refcount = 1
               /\ HandlesHeld(id) = 1 /\ \A i \in {id} : HandlesHeld(i)' = 0]_vars

\* the Add of a call for one key has evicted the entry of another key and
\* deleted its file, while another call holds the gate of that key and has not
\* yet probed the index
C32_Witness ==
    \E p, q \in Procs :
        /\ st[p].pc = "release" /\ st[p].path = "added"
        /\ InGate(q) /\ st[q].pc = "get" /\ st[q].key # st[p].key
        /\ st[q].key \notin DOMAIN entries
        /\ nextGen[st[q].key] > 0
        /\ \A g \in 1..nextGen[st[q].key] : <<st[q].key, g>> \notin DOMAIN files
        /\ UsedSpace(entries) + BodySize("b513") > MaxSizeInBytes

\* the places where a call can be when it gets a DownloadCancelledError
CancelPoints == {"wait", "barrier", "request", "copy"}

\* C33 as stated (cancellation at every suspension point): a call whose
\* cancel signal has been raised, at the gate, at the barrier, during the
\* request, the copy or the transformation, returns DownloadCancelled
C33_Original ==
    [][\A p \in Procs : Returns(p) /\ st[p].cancel => Cancelled(st[p].err)]_vars

\* C33 (cancellation at the suspension points), amended: a call gets
\* DownloadCancelled only at the gate, at the barrier, in the round-trip or in
\* the copy, and only with its signal raised; there, a cancelled call that
\* leaves the gate unwoken, or the barrier with no permit free, or whose
\* round-trip or copy fails, leaves with DownloadCancelled; the transformation
\* and what follows it take no notice of the signal: once the body is
\* streamed the call goes on as it would without the signal and never gets
\* DownloadCancelled
C33_CancelPoints ==
    [][\A p \in Procs :
          LET s == st[p]
              t == st'[p]
          IN /\ Cancelled(t.err) /\ ~Cancelled(s.err)
                  => s.cancel /\ s.pc \in CancelPoints
             /\ s.cancel /\ s.pc = "wait" /\ ~s.woken /\ t.pc # "wait" => Cancelled(t.err)
             /\ s.cancel /\ s.pc = "barrier" /\ t.pc # "barrier"
                  /\ permits = MaxConcurrentDownloads => Cancelled(t.err)
             /\ s.cancel /\ (RequestError(p) \/ CopyError(p)) => Cancelled(t.err)
             /\ s.pc \in {"transform", "closecur", "install"}
                  => /\ ~Cancelled(s.err) /\ ~Cancelled(t.err)
                     /\ t.pc # "idle"
             /\ s.pc = "transform" /\ t.pc # "transform"
                  => /\ t.err \in {"", "transform"}
                     /\ t.err = "" /\ Gated(s) => t.pc \in {"closecur", "install"}
                     /\ t.err = "" /\ ~Gated(s) => t.out.kind = "temp"]_vars

\* a Fetch whose signal has been raised is about to return the handle of the
\* file it has downloaded, transformed and admitted, with no error
C33_Witness ==
    \E p \in Procs :
        /\ st[p].pc = "release" /\ st[p].cancel
        /\ st[p].path = "added" /\ st[p].err = ""
        /\ st[p].out = CachedHandle(st[p].key, entries[st[p].key].gen)

\* the keys of a sequence of keys
Range(l) == {l[i] : i \in 1..Len(l)}

\* C34 (frame of a warm fetch): the steps of a gated Fetch that is answered
\* with 304, the probe, the taking of the permit, the 304 and the return, leave
\* the indexed keys and every entry's size, validator and generation as they
\* were, and create and remove no file in the cache directory or the
\* uncached directory; the probe makes the entry the most recently accessed
\* and adds one reference to its generation, and nothing else changes a
\* recency or a refcount
C34_WarmFrame ==
    [][\A p \in Procs :
          LET s == st[p]
              t == st'[p]
              id == <<s.key, t.cur>>
          IN /\ Gated(s) /\ ~s.dir /\ s.pc = "get" /\ Moves(p)
                  => /\ entries' = entries /\ nextGen' = nextGen
                     /\ uncached' = uncached
                     /\ DOMAIN files' = DOMAIN files
                     /\ Range(lru') = Range(lru) /\ Len(lru') = Len(lru)
                     /\ IF s.key \in DOMAIN entries
                        THEN /\ lru'[Len(lru')] = s.key
                             /\ files'[id].refcount = files[id].refcount + 1
                             /\ files'[id].content = files[id].content
                             /\ \A i \in DOMAIN files \ {id} : files'[i] = files[i]
                             /\ Without(lru', {s.key}) = Without(lru, {s.key})
                        ELSE files' = files /\ lru' = lru
             /\ Gated(s) /\ ~s.dir /\ s.pc = "barrier" /\ t.pc = "request"
                  => /\ entries' = entries /\ lru' = lru /\ files' = files
                     /\ uncached' = uncached
             /\ Gated(s) /\ ~s.dir /\ s.pc = "request" /\ t.path = "warm"
                  => /\ entries' = entries /\ lru' = lru /\ files' = files
                     /\ nextGen' = nextGen /\ uncached' = uncached
                     /\ t.size = 0 /\ t.dl = NoDownload
             /\ Gated(s) /\ ~s.dir /\ s.path = "warm" /\ Returns(p)
                  => /\ entries' = entries /\ lru' = lru /\ files' = files
                     /\ nextGen' = nextGen /\ uncached' = uncached
                     /\ s.out \in {NoHandle, CachedHandle(s.key, s.cur)}]_vars

\* a Fetch answered with 304 on its first attempt is about to return the
\* handle of its probe: its entry is the most recently accessed of two, the
\* uncached directory is empty, and the generation has the one reference
C34_Witness ==
    /\ st[1].pc = "release" /\ st[1].path = "warm" /\ ~st[1].dir
    /\ st[1].attempt = 0 /\ st[1].cur # 0
    /\ Len(lru) = 2 /\ lru[2] = st[1].key
    /\ uncached = EmptyBag
    /\ files[<<st[1].key, st[1].cur>>].refcount = 1

\* the call of caller p cannot take a step: it is parked on a gate that has not
\* been released, or at the barrier with no permit free
Blocked(p) ==
    \/ st[p].pc = "wait" /\ ~st[p].woken
    \/ st[p].pc = "barrier" /\ permits >= MaxConcurrentDownloads

\* C35 (lock order and deadlock freedom): a gated call that waits for a
\* permit or has one holds the gate of its key, and a call that is at a gate
\* has no permit: the permits taken are those of the calls past the barrier;
\* and when nobody cancels and the origin answers, some call in progress can
\* take a step whenever there is one
C35_NoDeadlock ==
    /\ \A p \in Procs :
          Gated(st[p]) /\ st[p].pc \in {"barrier", "request", "copy"}
            => inProgress[st[p].key] = p
    /\ permits = Cardinality({p \in Procs : st[p].pc \in {"request", "copy"}})
    /\ Active # {} => \E p \in Active : ~Blocked(p)

\* one call streams a body under the gate of its key with the only permit,
\* a second is parked on that gate and a third, uncached, at the barrier
C35_Witness ==
    \E p, q, r \in Procs :
        /\ st[p].pc = "copy" /\ st[p].key # "" /\ inProgress[st[p].key] = p
        /\ st[q].pc = "wait" /\ st[q].obs = p /\ Blocked(q)
        /\ st[r].pc = "barrier" /\ st[r].key = "" /\ Blocked(r)

\* C36 (permit accounting): a call takes one permit when it passes the
\* barrier, the permits stay as they are while it goes from attempt to attempt,
\* and it gives one back when it leaves Download, by a body verified, a 304,
\* the failure of the third attempt or a cancellation; a call cancelled at
\* the barrier gives none back; no other step changes the permits; and with
\* no call in progress no permit is taken
C36_PermitAccounting ==
    [][/\ \A p \in Procs :
            LET s == st[p]
                t == st'[p]
            IN /\ s.pc = "barrier" /\ t.pc = "request" => permits' = permits + 1
               /\ s.pc = "barrier" /\ t.pc \notin {"barrier", "request"}
                    => /\ permits' = permits
                       /\ t.err = "cancelled:download-barrier"
               /\ InDownload(s) /\ InDownload(t) /\ t # s => permits' = permits
               /\ InDownload(s) /\ ~InDownload(t)
                    => /\ permits' = permits - 1
                       /\ \/ t.pc = "transform"
                          \/ t.path = "warm"
                          \/ Cancelled(t.err)
                          \/ t.err \in AttemptErrors /\ s.attempt = MAX_DOWNLOAD_ATTEMPTS - 1
       /\ permits' # permits
            => \E p \in Procs : st[p].pc \in {"barrier", "request", "copy"} /\ Moves(p)
       /\ permits' \in 0..MaxConcurrentDownloads
       /\ Active' = {} => permits' = 0]_vars

\* a call cancelled at the barrier is on its way back while the call that has
\* the permit is at its third attempt
C36_Witness ==
    \E p, q \in Procs :
        /\ st[p].err = "cancelled:download-barrier" /\ st[p].pc # "idle"
        /\ InDownload(st[q]) /\ st[q].attempt = MAX_DOWNLOAD_ATTEMPTS - 1
        /\ permits = 1

\* a call of Fetch and a call of FetchAsDirectory for one key
Mixed(p, q) ==
    /\ st[p].pc # "idle" /\ st[q].pc # "idle"
    /\ st[p].dir /\ ~st[q].dir
    /\ st[p].key = st[q].key

\* C37 (Fetch and FetchAsDirectory share the gate map): of a Fetch and a
\* FetchAsDirectory for one key at most one is inside the gated section, and
\* the gate map names it; the other is before the gate or parked on it, has
\* not probed the index, and is woken by the return of the one it waits for
\* and by nothing else; so the index a call probes is not being updated by
\* the other
C37_SharedGate ==
    [][\A p, q \in Procs :
          /\ Mixed(p, q)
               => /\ ~(InGate(p) /\ InGate(q))
                  /\ InGate(p) => /\ inProgress[st[p].key] = p
                                  /\ st[q].pc \in {"acquire", "wait", "done"}
                                  /\ st[q].cur = 0 /\ st[q].cinfo = NoInfo
                  /\ InGate(q) => /\ inProgress[st[q].key] = q
                                  /\ st[p].pc \in {"acquire", "wait", "done"}
                                  /\ st[p].cur = 0 /\ st[p].cinfo = NoInfo
          /\ Mixed(p, q) \/ Mixed(q, p)
               => /\ st[q].pc = "wait" /\ st[q].obs = p /\ ~st[q].woken /\ st'[q].woken
                       => Releases(p)
                  /\ st[q].pc = "wait" /\ st[q].obs = p /\ ~st[q].woken
                       => st'[q].pc \in {"wait", "done"}
                  /\ st[q].pc = "get" /\ Moves(q)
                       => st[p].pc \in {"acquire", "wait", "done"}]_vars

\* a FetchAsDirectory is about to admit the tree it has expanded while a
\* Fetch for the same key is parked on its gate
C37_Witness ==
    \E p, q \in Procs :
        /\ Mixed(p, q)
        /\ st[p].pc = "install" /\ inProgress[st[p].key] = p
        /\ st[q].pc = "wait" /\ st[q].obs = p /\ ~st[q].woken

\* C38 (no lost wakeup at the gate): the release of a gate takes the mapping
\* of the key away and wakes every caller that observed the gate, in one
\* step; a caller that observed a gate and has not been woken waits on the
\* gate the gate map has for its key, whose holder is in its gated section;
\* a woken caller looks the gate map up again, and what it finds there is no
\* gate or the gate of a call that is in its gated section now, never a gate
\* that has been released
C38_NoLostWakeup ==
    [][/\ \A p \in Procs :
            Releases(p) /\ Gated(st[p])
              => /\ inProgress[st[p].key] = p /\ inProgress'[st[p].key] = 0
                 /\ \A q \in WaitersOn(p) : st'[q].pc = "wait" /\ st'[q].woken
       /\ \A q \in Procs :
            LET s == st[q]
                t == st'[q]
            IN /\ t.pc = "wait" /\ ~t.woken
                    => /\ t.obs # 0 /\ t.obs # q
                       /\ inProgress'[t.key] = t.obs
                       /\ Gated(st'[t.obs]) /\ st'[t.obs].pc \in GatePcs
                       /\ st'[t.obs].key = t.key
               /\ t.pc = "wait" /\ t.woken /\ ~(s.pc = "wait" /\ s.woken)
                    => s.pc = "wait" /\ Releases(s.obs)
               /\ s.pc = "wait" /\ s.woken /\ t.pc # "wait"
                    => t.pc \in {"acquire", "done"}
               /\ s.pc = "acquire" /\ t.pc # "acquire"
                    => IF inProgress[s.key] = 0
                       THEN t.pc = "get" /\ inProgress'[s.key] = q
                       ELSE /\ t.pc = "wait" /\ ~t.woken
                            /\ t.obs = inProgress[s.key]
                            /\ InGate(t.obs)]_vars

\* two callers were parked on a gate that has been released: one has looked
\* the gate map up again and holds the gate now, the other has been woken and
\* has not yet looked
C38_Witness ==
    \E q, r \in Procs :
        /\ q # r
        /\ st[q].pc = "wait" /\ st[q].woken
        /\ st[q].obs \notin {q, r}
        /\ inProgress[st[q].key] = r /\ InGate(r)
        /\ st[st[q].obs].pc = "idle"

\* C39 (304 without a cached entry): a gated Fetch whose probe found no entry
\* sends no validator; when the origin answers 304 all the same, the call owes
\* its caller the EntryNotFound error, size 0 and no handle, the index, the
\* recency order, both directories and the generation counters are as they
\* were, the permit is back, and the only step the call has left is its
\* return, which hands nothing over
C39_NotModifiedWithoutEntry ==
    [][\A p \in Procs :
         LET s == st[p]
             t == st'[p]
         IN /\ Gated(s) /\ ~s.dir /\ s.pc = "get" /\ t.pc # "get"
                 => /\ t.pc = "barrier"
                    /\ (t.cur = 0) = (s.key \notin DOMAIN entries)
                    /\ t.cur = 0 => t.cinfo = NoInfo
            /\ Gated(s) /\ ~s.dir /\ s.cur = 0
               /\ s.pc = "request" /\ t.pc = "release" /\ t.path = "warm"
                 => /\ s.key \notin DOMAIN entries
                    /\ s.cinfo = NoInfo
                    /\ t.err = "EntryNotFound"
                    /\ t.size = 0
                    /\ t.out = NoHandle
                    /\ permits' = permits - 1
                    /\ UNCHANGED <<entries, lru, files, nextGen, uncached, held>>
            /\ Gated(s) /\ ~s.dir /\ s.cur = 0
               /\ s.pc = "release" /\ s.path = "warm" /\ t # s
                 => /\ t.pc = "idle"
                    /\ s.err = "EntryNotFound" /\ s.size = 0 /\ s.out = NoHandle
                    /\ inProgress'[s.key] = 0
                    /\ UNCHANGED <<entries, lru, files, nextGen, uncached, held,
                                   permits>>]_vars

\* the origin has answered 304 to a request that carried no validator, for a
\* key the index does not have while it has another
C39_Witness ==
    \E p \in Procs :
        /\ st[p].pc = "release" /\ st[p].path = "warm"
        /\ Gated(st[p]) /\ ~st[p].dir
        /\ st[p].cur = 0 /\ st[p].cinfo = NoInfo
        /\ st[p].key \notin DOMAIN entries
        /\ st[p].err = "EntryNotFound"
        /\ DOMAIN entries # {}

\* the transformers a Fetch may have been constructed with
FileTransformers == {"noop", "custom"}

\* C40 (sizes on a fresh download): the size a gated Fetch returns is the byte
\* count of the file Download left, taken before the transformer ran, and it
\* stays that until the return; the size of the entry Add admits, which is
\* what the byte budget is charged with, is the size the transformer reported
\* for the file it wrote; so the entry's size and the returned size differ
\* exactly when the transformer reported a size other than the download's
C40_Sizes ==
    [][\A p \in Procs :
         LET s == st[p]
             t == st'[p]
             k == s.key
         IN Gated(s) /\ ~s.dir =>
            /\ s.pc = "transform" /\ t.pc \in {"closecur", "install"}
                 => /\ BagIn(s.resp.body, uncached)
                    /\ t.size = BodySize(s.resp.body)
                    /\ \E tr \in FileTransformers :
                          /\ t.dl.size = TransformResult(tr, s.resp.body).size
                          /\ t.dl.path = TransformResult(tr, s.resp.body).content
                          /\ BagIn(t.dl.path, uncached')
            /\ s.pc \in {"closecur", "install"} /\ t # s
                 => /\ t.pc \in {"install", "release"}
                    /\ t.size = s.size /\ t.dl = s.dl
            /\ s.pc = "install" /\ t.pc = "release" /\ t.path = "added"
                 => /\ entries'[k].size = s.dl.size
                    /\ files'[<<k, entries'[k].gen>>].content = s.dl.path
                    /\ t.out = CachedHandle(k, entries'[k].gen)
                    /\ UsedSpace(entries')
                         = SumSizes(entries', DOMAIN entries' \ {k}) + s.dl.size
                    /\ UsedSpace(entries') <= MaxSizeInBytes
                    /\ (entries'[k].size = t.size) = (s.dl.size = s.size)
            /\ s.pc = "release" /\ s.path = "added" /\ t # s
                 => /\ t.pc = "idle"
                    /\ k \in DOMAIN entries
                    /\ entries[k].size = s.dl.size
                    /\ (entries[k].size = s.size) = (s.dl.size = s.size)
                    /\ entries' = entries]_vars

\* a download of three times the byte budget has been admitted as an entry of
\* the size its transformer reported, and the call is about to return the size
\* of the download
C40_Witness ==
    \E p \in Procs :
        /\ st[p].pc = "release" /\ st[p].path = "added" /\ ~st[p].dir
        /\ st[p].size = 3072 /\ st[p].size > MaxSizeInBytes
        /\ st[p].key \in DOMAIN entries
        /\ entries[st[p].key].size = 100
        /\ files[<<st[p].key, entries[st[p].key].gen>>].content = "hello tmp"
        /\ Cardinality(DOMAIN entries) = 2

====
